---- MODULE Spec2Model ----
(***************************************************************************)
(* Character discovery, caching and archive export of the character        *)
(* creation studio (character_manager.py, zip_utils.py).                   *)
(*                                                                         *)
(* Names of files and directories are sequences of tokens, so that the     *)
(* prefix and suffix tests of the code (glob patterns, str.startswith)     *)
(* are computed on the name and never assumed.  Optional values are        *)
(* sequences of length 0 (None) or 1.                                      *)
(***************************************************************************)
EXTENDS Integers, Sequences, FiniteSets, TLC

VARIABLES
    fs,                 \* the directory tree under the root directory
    caseFold,           \* TRUE where pathlib's glob ignores case (Windows)
    now,                \* the wall clock, in seconds
    ticks,              \* how many times the clock has advanced
    characters_cache,   \* CharacterManager._characters_cache
    last_scan_time,     \* CharacterManager._last_scan_time
    ret,                \* the list returned by the call that made the last step
    call,               \* that call: its arguments, and the cache it found
    changes,            \* how many times a directory has been rewritten from outside
    temp,               \* the temporary files created so far: TRUE while one exists
    zret,               \* the result of the last archive build, and the archive
    cache_time,         \* the time taken by the call whose list is in the cache
    callers,            \* where each handler thread stands inside discover_characters
    archives,           \* the finished archives on the disk, by temporary file
    library             \* the Character Library tab: gallery, grid and selection

vars == <<fs, caseFold, now, ticks, characters_cache, last_scan_time, cache_time, ret, call,
          changes, temp, zret, callers, archives, library>>

\* The finished archives on the disk, by the name of their file: the call
\* that built each, the tree and the time it was built from, its entries.
\* Only the specification that examines the contents follows them; the
\* others start from NotKept and leave it.
NotKept == [k \in {0} |-> <<>>]
NoArchives == <<>>

\* The components of the Character Library tab (app.py lines 586-609): the
\* gallery, the grid state and the selected character, before any refresh.
NoLibrary ==
    [character_gallery |-> <<>>, library_status |-> <<>>,
     character_grid_data |-> <<>>, selected_character_data |-> <<>>,
     character_details |-> <<>>]

None == <<>>
Some(x) == <<x>>
IsNone(o) == o = <<>>
Get(o) == o[1]

(***************************************************************************)
(* Bounds of the model.                                                    *)
(***************************************************************************)
MaxDirs == 2
MaxTicks == 2
MaxChanges == 1
MaxArchives == 2

(***************************************************************************)
(* Names.                                                                  *)
(***************************************************************************)
StartsWith(s, p) == Len(s) >= Len(p) /\ SubSeq(s, 1, Len(p)) = p
EndsWith(s, p) == Len(s) >= Len(p) /\ SubSeq(s, Len(s) - Len(p) + 1, Len(s)) = p

Lower(tok) ==
    CASE tok = "Session" -> "session"
      [] tok = "Char" -> "char"
      [] tok = "Base-" -> "base-"
      [] tok = "Realistic" -> "realistic"
      [] OTHER -> tok

Fold(name) == [i \in DOMAIN name |-> Lower(name[i])]

\* Path.glob("<prefix>*<suffix>") applied to one entry name: fnmatch, which
\* pathlib evaluates without regard to case on a case-insensitive platform.
GlobMatch(name, prefix, suffix, ci) ==
    LET n == IF ci THEN Fold(name) ELSE name
        p == IF ci THEN Fold(prefix) ELSE prefix
        s == IF ci THEN Fold(suffix) ELSE suffix
    IN  /\ Len(n) >= Len(p) + Len(s)
        /\ StartsWith(n, p)
        /\ EndsWith(n, s)

\* app.py lines 58-62: the identifiers given when the fields are left
\* blank, f"Session_{now:%Y%m%d_%H%M%S}" and f"Character_{now:%H%M%S}".
\* The day and the second of the day stand for the formatted date and time.
AutoSessionId(t) == <<"Session", "_", ToString(t \div 86400), "_", ToString(t % 86400)>>
AutoCharacterId(t) == <<"Char", "acter", "_", ToString(t % 86400)>>

SessionNames ==
    << <<"Session", "_", "A">>, <<"session", "_", "b">>, <<"Old">>,
       <<".", "cache">>, <<"__pycache__">>,
       <<"Session", "_", "log">>, <<"notes">>, AutoSessionId(0),
       <<"Session", "_", "A", "_", "Char", "_", "1">> >>
CharNames ==
    << <<"Char", "_", "1">>, <<"Hero">>, AutoCharacterId(0),
       <<"Char", "_", "1", "_", "Char", "_", "1">> >>

BaseCharacterPng == <<"Base-", "Character", ".png">>
BaseImagePng == <<"Base-", "Image", ".png">>
BaseOtherPng == <<"Base-", "Draft", ".png">>
CharacterMetaJson == <<"base_character_", "metadata", ".json">>
ImageMetaJson == <<"base_image_", "metadata", ".json">>
Realistic1 == <<"Realistic", "_", "001", ".png">>
Realistic2 == <<"Realistic", "_", "002", ".png">>
Realistic1Meta == <<"Realistic", "_", "001", "_", "metadata", ".json">>
OtherPng == <<"Pose", ".png">>
Ghibli1 == <<"ghibli", "_", "001", ".png">>
Ghibli1Meta == <<"ghibli", "_", "001", "_", "metadata", ".json">>
NotesTxt == <<"notes", ".txt">>

\* The order in which the operating system lists the entries of a directory.
FileNames ==
    << BaseCharacterPng, BaseImagePng, BaseOtherPng, CharacterMetaJson,
       ImageMetaJson, Realistic1, Realistic2, Realistic1Meta, OtherPng,
       Ghibli1, Ghibli1Meta, NotesTxt >>
StyleNames == << <<"ghibli">>, <<"rick", "_", "morty">>, <<"noir">> >>

Listing(universe, S) == SelectSeq(universe, LAMBDA x : x \in S)

(***************************************************************************)
(* The filesystem.  fs.dirs maps the path <<session, character>> of every  *)
(* second-level entry to its content; fs.files are the plain files of the  *)
(* root.  A session directory exists when an entry lies under it.          *)
(***************************************************************************)
NoStyles == [s \in {} |-> {}]

Entry(kind, ctime, top, meta, hasC, cfiles, hasS, sdirs, sfiles) ==
    [kind |-> kind, ctime |-> ctime, top |-> top, meta |-> meta,
     hasConsistency |-> hasC, consistency |-> cfiles,
     hasStyles |-> hasS, styles |-> sdirs, styleFiles |-> sfiles]

RootNames(fsys) == {p[1] : p \in DOMAIN fsys.dirs} \cup fsys.files
IsRootDir(fsys, s) == \E p \in DOMAIN fsys.dirs : p[1] = s
ChildNames(fsys, s) == {p[2] : p \in {q \in DOMAIN fsys.dirs : q[1] = s}}
IsCharDir(fsys, s, c) ==
    <<s, c>> \in DOMAIN fsys.dirs /\ fsys.dirs[<<s, c>>].kind = "dir"

(***************************************************************************)
(* Metadata documents.  A metadata file holds text; JsonLoad is json.load: *)
(* None when the text does not parse, else the parsed document.            *)
(***************************************************************************)
JNull == [type |-> "null", keys |-> {}, prompt |-> None]
JEmpty == [type |-> "dict", keys |-> {}, prompt |-> None]
JFull == [type |-> "dict", keys |-> {"prompt", "parameters", "success"},
          prompt |-> Some("a portrait")]
JNoPrompt == [type |-> "dict", keys |-> {"parameters"}, prompt |-> None]
JList == [type |-> "list", keys |-> {"0"}, prompt |-> None]

JsonLoad(text) ==
    CASE text = "{prompt,parameters,success}" -> Some(JFull)
      [] text = "{parameters}" -> Some(JNoPrompt)
      [] text = "{}" -> Some(JEmpty)
      [] text = "null" -> Some(JNull)
      [] text = "[1]" -> Some(JList)
      [] OTHER -> None

\* Python's truth value of a parsed document.
Truthy(doc) == doc.type \in {"dict", "list"} /\ doc.keys # {}

(***************************************************************************)
(* CharacterInfo, and _analyze_character_directory.  The field via is not  *)
(* a field of the program: it records which pass of _scan_location built   *)
(* the object, which is how two CharacterInfo objects of one directory     *)
(* are told apart.                                                         *)
(***************************************************************************)
BaseImageCandidates == <<BaseCharacterPng, BaseImagePng>>

FirstExisting(candidates, present) ==
    LET found == SelectSeq(candidates, LAMBDA f : f \in present)
    IN  IF found = <<>> THEN None ELSE Some(Head(found))

MetadataPath(top) ==
    IF CharacterMetaJson \in top THEN CharacterMetaJson ELSE ImageMetaJson

\* the styled images left out of the total
SumCountsMutantZero(counts) == 0

SumCounts(counts) ==
    LET RECURSIVE Sum(_)
        Sum(S) == IF S = {} THEN 0
                  ELSE LET k == CHOOSE x \in S : TRUE
                       IN  counts[k] + Sum(S \ {k})
    IN  Sum(DOMAIN counts)

\* the styles whose folder holds no image get no key
StyledCountsMutantSkipsEmpty(e, ci) ==
    IF e.hasStyles
    THEN [st \in {x \in DOMAIN e.styles :
                    \E f \in e.styles[x] : GlobMatch(f, <<>>, <<".png">>, ci)} |->
            Cardinality({f \in e.styles[st] : GlobMatch(f, <<>>, <<".png">>, ci)})]
    ELSE NoStyles

\* Lines 252-259: one key per directory under Styles (e.styles; the plain
\* files of Styles are e.styleFiles), the *.png entries of each counted.
StyledCounts(e, ci) ==
    IF e.hasStyles
    THEN [st \in DOMAIN e.styles |->
            Cardinality({f \in e.styles[st] : GlobMatch(f, <<>>, <<".png">>, ci)})]
    ELSE NoStyles

\* The record built by lines 203-266, before the test of total_images.
CharInfoOf(e, session_id, character_id, via, ci) ==
    LET base == FirstExisting(BaseImageCandidates, e.top)
        loaded == IF MetadataPath(e.top) \in e.top THEN JsonLoad(e.meta) ELSE None
        \* json.load returning null leaves base_metadata None
        metadata == IF loaded # None /\ Get(loaded).type = "null" THEN None ELSE loaded
        usable == metadata # None /\ Truthy(Get(metadata))
        isDict == usable /\ Get(metadata).type = "dict"
        realistic == IF e.hasConsistency
                     THEN Cardinality({f \in e.consistency :
                              GlobMatch(f, <<"Realistic", "_">>, <<".png">>, ci)})
                     ELSE 0
        styled == StyledCounts(e, ci)
    IN  [session_id |-> session_id,
         character_id |-> character_id,
         path |-> <<session_id, character_id>>,
         creation_date |-> e.ctime,
         base_image_path |-> base,
         base_metadata |-> metadata,
         realistic_count |-> realistic,
         styled_counts |-> styled,
         total_images |-> (IF base # None THEN 1 ELSE 0) + realistic + SumCounts(styled),
         character_config |-> IF isDict /\ "parameters" \in Get(metadata).keys
                              THEN Some({}) ELSE None,
         prompt |-> IF isDict THEN Get(metadata).prompt ELSE None,
         via |-> via]

\* the test of line 269 left out
AnalyzeMutantNoImageTest(fsys, session_id, character_id, via, ci, unreadable) ==
    LET e == fsys.dirs[<<session_id, character_id>>]
    IN  IF e.hasStyles /\ unreadable = Some(<<session_id, character_id>>)
        THEN None
        ELSE Some(CharInfoOf(e, session_id, character_id, via, ci))

\* a metadata file that does not parse ends the analysis of the directory
AnalyzeMutantParseAborts(fsys, session_id, character_id, via, ci, unreadable) ==
    LET e == fsys.dirs[<<session_id, character_id>>]
        info == CharInfoOf(e, session_id, character_id, via, ci)
    IN  IF e.hasStyles /\ unreadable = Some(<<session_id, character_id>>)
        THEN None
        ELSE IF MetadataPath(e.top) \in e.top /\ JsonLoad(e.meta) = None
        THEN None
        ELSE IF info.total_images > 0 THEN Some(info) ELSE None

\* None when the directory holds no image, or when listing its Styles
\* folder raises (the except of line 274).
analyze_character_directory(fsys, session_id, character_id, via, ci, unreadable) ==
    LET e == fsys.dirs[<<session_id, character_id>>]
        info == CharInfoOf(e, session_id, character_id, via, ci)
    IN  IF e.hasStyles /\ unreadable = Some(<<session_id, character_id>>)
        THEN None
        ELSE IF info.total_images > 0 THEN Some(info) ELSE None

RECURSIVE Concat(_)
Concat(ss) == IF ss = <<>> THEN <<>> ELSE Head(ss) \o Concat(Tail(ss))

(***************************************************************************)
(* _scan_location.  unreadable is None, or the one directory whose listing *)
(* raises PermissionError during this scan: <<session>> for a session      *)
(* directory, <<session, character>> for the Styles folder of a character. *)
(* Path.glob swallows PermissionError; Path.iterdir raises it.             *)
(***************************************************************************)
StandardSessions(fsys, ci) ==
    SelectSeq(Listing(SessionNames, RootNames(fsys)),
              LAMBDA s : GlobMatch(s, <<"Session", "_">>, <<>>, ci) /\ IsRootDir(fsys, s))

StandardChars(fsys, ci, unreadable, s) ==
    IF unreadable = Some(<<s>>) THEN <<>>
    ELSE SelectSeq(Listing(CharNames, ChildNames(fsys, s)),
                   LAMBDA c : GlobMatch(c, <<"Char", "_">>, <<>>, ci) /\ IsCharDir(fsys, s, c))

StandardPass(fsys, ci, unreadable) ==
    LET ss == StandardSessions(fsys, ci)
    IN  Concat([i \in 1..Len(ss) |->
          LET cs == StandardChars(fsys, ci, unreadable, ss[i])
          IN  Concat([j \in 1..Len(cs) |->
                analyze_character_directory(fsys, ss[i], cs[j], "standard", ci, unreadable)])])

LegacySessions(fsys) ==
    SelectSeq(Listing(SessionNames, RootNames(fsys)),
              LAMBDA s : /\ IsRootDir(fsys, s)
                         /\ ~StartsWith(s, <<"Session", "_">>)
                         /\ ~StartsWith(s, <<".">>)
                         /\ s # <<"__pycache__">>)

LooksLikeCharacter(e, ci) ==
    \/ \E f \in e.top : GlobMatch(f, <<"Base-">>, <<".png">>, ci)
    \/ \E f \in e.top : GlobMatch(f, <<>>, <<"metadata", ".json">>, ci)

LegacyChars(fsys, ci, s) ==
    SelectSeq(Listing(CharNames, ChildNames(fsys, s)),
              LAMBDA c : /\ IsCharDir(fsys, s, c)
                         /\ LooksLikeCharacter(fsys.dirs[<<s, c>>], ci))

LegacyPass(fsys, ci, unreadable) ==
    LET ss == LegacySessions(fsys)
    IN  Concat([i \in 1..Len(ss) |->
          LET cs == LegacyChars(fsys, ci, ss[i])
          IN  Concat([j \in 1..Len(cs) |->
                analyze_character_directory(fsys, ss[i], cs[j], "legacy", ci, unreadable)])])

\* potential_session.iterdir() of line 168 raises outside every inner try: the
\* except of line 195 then returns [] for the whole location.
LegacyPassRaises(fsys, unreadable) ==
    \E i \in 1..Len(LegacySessions(fsys)) : unreadable = Some(<<LegacySessions(fsys)[i]>>)

\* the two passes in the other order
ScanLocationMutantLegacyFirst(fsys, ci, unreadable) ==
    IF LegacyPassRaises(fsys, unreadable) THEN <<>>
    ELSE LegacyPass(fsys, ci, unreadable) \o StandardPass(fsys, ci, unreadable)

scan_location(fsys, ci, unreadable) ==
    IF LegacyPassRaises(fsys, unreadable) THEN <<>>
    ELSE StandardPass(fsys, ci, unreadable) \o LegacyPass(fsys, ci, unreadable)

(***************************************************************************)
(* discover_characters: duplicates, order, cache.                          *)
(***************************************************************************)
CharKey(char) == <<char.session_id, char.character_id>>
Keys(chars) == {CharKey(chars[i]) : i \in DOMAIN chars}

\* the loop of lines 85-91 left out
RemoveDuplicatesMutantKeepAll(characters) == characters

RemoveDuplicates(characters) ==
    LET RECURSIVE Unique(_, _)
        Unique(rest, seen) ==
            IF rest = <<>> THEN <<>>
            ELSE IF CharKey(Head(rest)) \in seen
                 THEN Unique(Tail(rest), seen)
                 ELSE <<Head(rest)>> \o Unique(Tail(rest), seen \cup {CharKey(Head(rest))})
    IN  Unique(characters, {})

InsertNewestFirst(sorted, char) ==
    LET before == SelectSeq(sorted, LAMBDA x : x.creation_date >= char.creation_date)
        after == SelectSeq(sorted, LAMBDA x : x.creation_date < char.creation_date)
    IN  before \o <<char>> \o after

InsertOldestFirst(sorted, char) ==
    LET before == SelectSeq(sorted, LAMBDA x : x.creation_date <= char.creation_date)
        after == SelectSeq(sorted, LAMBDA x : x.creation_date > char.creation_date)
    IN  before \o <<char>> \o after

RECURSIVE Reverse(_)
Reverse(s) == IF s = <<>> THEN <<>> ELSE Reverse(Tail(s)) \o <<Head(s)>>

\* sorted oldest first and then reversed: equal dates come out in reverse order
SortMutantReversed(characters) ==
    LET RECURSIVE Sorted(_)
        Sorted(k) == IF k = 0 THEN <<>> ELSE InsertOldestFirst(Sorted(k - 1), characters[k])
    IN  Reverse(Sorted(Len(characters)))

\* list.sort(key=creation_date, reverse=True): stable, newest first.
SortNewestFirst(characters) ==
    LET RECURSIVE Sorted(_)
        Sorted(k) == IF k = 0 THEN <<>> ELSE InsertNewestFirst(Sorted(k - 1), characters[k])
    IN  Sorted(Len(characters))

\* Lines 61-96: what a scanning call computes from the filesystem.
ScanResult(fsys, ci, unreadable) ==
    SortNewestFirst(RemoveDuplicates(scan_location(fsys, ci, unreadable)))

FreshnessWindow == 30
SecondsPerDay == 86400

\* timedelta.seconds: the seconds field of the normalised difference, which
\* leaves out whole days.
TimedeltaSeconds(d) == d % SecondsPerDay

\* the age of the cache not tested
UseCacheMutantIgnoreWindow(force_refresh, cache, last, current_time) ==
    /\ ~force_refresh
    /\ cache # None
    /\ last # None

\* force_refresh not tested
UseCacheMutantIgnoreForce(force_refresh, cache, last, current_time) ==
    /\ cache # None
    /\ last # None
    /\ TimedeltaSeconds(current_time - Get(last)) < FreshnessWindow

\* the comparison of the age turned round
UseCacheMutantStaleOnly(force_refresh, cache, last, current_time) ==
    /\ ~force_refresh
    /\ cache # None
    /\ last # None
    /\ TimedeltaSeconds(current_time - Get(last)) >= FreshnessWindow

UseCache(force_refresh, cache, last, current_time) ==
    /\ ~force_refresh
    /\ cache # None
    /\ last # None
    /\ TimedeltaSeconds(current_time - Get(last)) < FreshnessWindow

\* The result of the last CharacterZipper call: the returned triple, the
\* entries of the archive it refers to, whether an exception has left the
\* call, and for get_estimated_zip_size the returned pair (size, message).
NoZip ==
    [success |-> FALSE, message |-> "", path |-> None, entries |-> <<>>,
     raised |-> FALSE, size |-> 0, filename |-> <<>>]

\* The call that produced the current results: its name and its inputs.
\* (fault and vanished are the failure the environment injects into an
\* archive or sizing call; characters and selection are the inputs of the
\* batch operations.)
NoCall ==
    [op |-> "none", force |-> FALSE, cacheBefore |-> None, scanBefore |-> None,
     unreadable |-> None, scanned |-> FALSE, char_info |-> None,
     include_metadata |-> FALSE, fault |-> "none", vanished |-> None,
     characters |-> <<>>, selection |-> <<>>, temp_path |-> None]

\* The handlers of app.py that reach discover_characters, each run by the
\* server on a thread of its own: refresh_character_library (line 165) and,
\* through get_character_by_id, download_character_zip (line 202).
Callers == {"refresh_character_library", "download_character_zip"}

\* A caller outside discover_characters; inside, pc is the line it has
\* reached, current_time the time it read at line 52 and characters the
\* list it has scanned.
Outside == [pc |-> "idle", current_time |-> 0, characters |-> <<>>]

NoCallers == [c \in Callers |-> Outside]

discover_characters(force_refresh, unreadable, op) ==
    LET cached == UseCache(force_refresh, characters_cache, last_scan_time, now)
        characters == ScanResult(fs, caseFold, unreadable)
    IN  /\ call' = [NoCall EXCEPT !.op = op, !.force = force_refresh,
                    !.cacheBefore = characters_cache, !.scanBefore = last_scan_time,
                    !.unreadable = IF cached THEN None ELSE unreadable,
                    !.scanned = ~cached]
        /\ IF cached
           THEN /\ ret' = Get(characters_cache)
                /\ UNCHANGED <<characters_cache, last_scan_time, cache_time>>
           ELSE /\ ret' = characters
                /\ characters_cache' = Some(characters)
                /\ last_scan_time' = Some(now)
                /\ cache_time' = Some(now)
        /\ zret' = NoZip
        /\ UNCHANGED <<fs, caseFold, callers, archives, library, now, ticks, changes,
                       temp>>

\* The directories whose listing may raise during a scan of fsys.
Unreadables(fsys) ==
    {None} \cup {Some(<<p[1]>>) : p \in DOMAIN fsys.dirs}
           \cup {Some(p) : p \in {q \in DOMAIN fsys.dirs : fsys.dirs[q].hasStyles}}

Discover ==
    \E force \in BOOLEAN, u \in Unreadables(fs) : discover_characters(force, u, "discover")

refresh_characters ==
    \E u \in Unreadables(fs) : discover_characters(TRUE, u, "discover")

EmptyFs == [dirs |-> <<>>, files |-> {}]

(***************************************************************************)
(* ScanSpec: discovery over every directory tree of a bounded family.      *)
(***************************************************************************)
Slots ==
    { << <<"Session", "_", "A">>, <<"Char", "_", "1">> >>,
      << <<"Session", "_", "A">>, <<"Hero">> >>,
      << <<"session", "_", "b">>, <<"Char", "_", "1">> >>,
      << <<"Old">>, <<"Hero">> >>,
      << <<".", "cache">>, <<"Hero">> >> }

EmptyDir(t) == Entry("dir", t, {}, "", FALSE, {}, FALSE, NoStyles, {})
PlainFile(t) == Entry("file", t, {}, "", FALSE, {}, FALSE, NoStyles, {})
BaseOnly(t) == Entry("dir", t, {BaseCharacterPng}, "", FALSE, {}, FALSE, NoStyles, {})
\* a metadata document and a stray picture, but no image that is counted
MetaOnly(t) ==
    Entry("dir", t, {CharacterMetaJson}, "{prompt,parameters,success}",
          TRUE, {OtherPng}, FALSE, NoStyles, {})
\* variations and styled images, but neither base image nor metadata
Variations(t) ==
    Entry("dir", t, {}, "", TRUE, {Realistic1},
          TRUE, [st \in {<<"ghibli">>} |-> {Ghibli1}], {})

ScanEntries == {PlainFile(1), BaseOnly(1), BaseOnly(2), MetaOnly(1), Variations(2)}

RootFiles == {<<"Session", "_", "log">>, <<"notes">>}

ScanFsUniverse ==
    LET Ds == {D \in SUBSET Slots : Cardinality(D) <= MaxDirs}
    IN  {[dirs |-> d, files |-> RootFiles] : d \in UNION {[D -> ScanEntries] : D \in Ds}}

ScanInit ==
    /\ fs \in ScanFsUniverse
    /\ caseFold \in BOOLEAN
    /\ now = 0
    /\ ticks = 0
    /\ characters_cache = None
    /\ last_scan_time = None
    /\ cache_time = None
    /\ callers = NoCallers
    /\ ret = <<>>
    /\ call = NoCall
    /\ changes = 0
    /\ temp = <<>>
    /\ archives = NotKept
    /\ library = NoLibrary
    /\ zret = NoZip

ScanNext ==
    \/ Discover
    \/ refresh_characters

ScanSpec == ScanInit /\ [][ScanNext]_vars

(***************************************************************************)
(* Properties of discovery, checked under ScanSpec, where the directory    *)
(* tree does not change: fs is the tree every call has seen.               *)
(***************************************************************************)
\* what the two passes of the last call collected, in the order found
Candidates == scan_location(fs, caseFold, call.unreadable)

FirstIndex(chars, key) == CHOOSE i \in DOMAIN chars :
    /\ CharKey(chars[i]) = key
    /\ \A j \in DOMAIN chars : CharKey(chars[j]) = key => i <= j

LastCallScanned == call.op = "discover" /\ call.scanned

\* C1: a returned list, scanned or cached, never holds two records with the
\* same (session_id, character_id); of the candidates of one scan that share
\* a pair, the record returned is the first one found, unchanged, and no
\* pair is lost.
C1_UniqueFirstSeen ==
    /\ \A i, j \in DOMAIN ret : CharKey(ret[i]) = CharKey(ret[j]) => i = j
    /\ LastCallScanned =>
         /\ Keys(ret) = Keys(Candidates)
         /\ \A i \in DOMAIN ret :
              ret[i] = Candidates[FirstIndex(Candidates, CharKey(ret[i]))]

C1_Witness ==
    /\ LastCallScanned
    /\ \E i, j \in DOMAIN Candidates :
         i < j /\ CharKey(Candidates[i]) = CharKey(Candidates[j])
    /\ Len(ret) = 2

\* the images discovery counts, read off the directory itself
HasBaseImage(e) == BaseCharacterPng \in e.top \/ BaseImagePng \in e.top
HasRealisticImage(e) ==
    e.hasConsistency /\ \E f \in e.consistency :
        StartsWith(f, <<"Realistic", "_">>) /\ EndsWith(f, <<".png">>)
HasStyledImage(e) ==
    e.hasStyles /\ \E st \in DOMAIN e.styles : \E f \in e.styles[st] : EndsWith(f, <<".png">>)
HasImages(e) == HasBaseImage(e) \/ HasRealisticImage(e) \/ HasStyledImage(e)

\* C2: no returned record has total_images = 0, and a directory without base
\* image, consistency image and styled image is in no returned list.
C2_NoImagelessRecord ==
    /\ \A i \in DOMAIN ret : ret[i].total_images > 0
    /\ \A p \in DOMAIN fs.dirs :
         ~HasImages(fs.dirs[p]) => \A i \in DOMAIN ret : ret[i].path # p

\* a scan has passed over an imageless Session_*/Char_* directory and over an
\* imageless directory that the legacy pass takes for a character
C2_Witness ==
    /\ LastCallScanned
    /\ call.unreadable = None
    /\ \E s \in Slots : /\ s \in DOMAIN fs.dirs
                        /\ s[1] = <<"Session", "_", "A">> /\ s[2] = <<"Char", "_", "1">>
                        /\ fs.dirs[s].kind = "dir" /\ ~HasImages(fs.dirs[s])
    /\ \E s \in Slots : /\ s \in DOMAIN fs.dirs
                        /\ s[1] = <<"Old">>
                        /\ fs.dirs[s].kind = "dir" /\ ~HasImages(fs.dirs[s])
                        /\ LooksLikeCharacter(fs.dirs[s], caseFold)
    /\ ret = <<>>

\* C6: a scanned list is in descending creation_date, and records of equal
\* creation_date stand in the order in which they were found (Standard pass
\* before Legacy pass).
C6_NewestFirstStable ==
    LastCallScanned =>
        \A i, j \in DOMAIN ret : i < j =>
            /\ ret[i].creation_date >= ret[j].creation_date
            /\ ret[i].creation_date = ret[j].creation_date =>
                 /\ FirstIndex(Candidates, CharKey(ret[i]))
                      < FirstIndex(Candidates, CharKey(ret[j]))
                 /\ ~(ret[i].via = "legacy" /\ ret[j].via = "standard")

C6_Witness ==
    /\ LastCallScanned
    /\ Len(ret) = 2
    /\ ret[1].creation_date = ret[2].creation_date
    /\ ret[1].via = "standard" /\ ret[2].via = "legacy"

\* C7: when the listing of one directory fails during a scan, every character
\* that the same scan without the failure returns, and that is neither that
\* directory nor inside it, is still returned.
C7_FailureSkipsOnlyCandidate ==
    LastCallScanned /\ call.unreadable # None =>
        LET healthy == ScanResult(fs, caseFold, None)
            failed == Get(call.unreadable)
        IN  \A i \in DOMAIN healthy :
              (failed # healthy[i].path /\ failed # <<healthy[i].session_id>>)
                  => CharKey(healthy[i]) \in Keys(ret)

\* C8: a pair that both passes of a scan yield is returned exactly once, as
\* the record of the Standard pass.
BothPasses ==
    IF LegacyPassRaises(fs, call.unreadable) THEN {}
    ELSE Keys(StandardPass(fs, caseFold, call.unreadable))
           \cap Keys(LegacyPass(fs, caseFold, call.unreadable))

C8_StandardWins ==
    LastCallScanned =>
        \A key \in BothPasses :
            /\ Cardinality({i \in DOMAIN ret : CharKey(ret[i]) = key}) = 1
            /\ \A i \in DOMAIN ret : CharKey(ret[i]) = key => ret[i].via = "standard"

C8_Witness ==
    /\ LastCallScanned
    /\ BothPasses # {}
    /\ \E i \in DOMAIN ret : CharKey(ret[i]) \in BothPasses

(***************************************************************************)
(* Spec: one CharacterManager over a directory tree that the generator and *)
(* the user change between calls, while the clock advances.  A step that   *)
(* is no call clears ret and call, so that in a state with                 *)
(* call.op = "discover" the variables fs and now are the tree and the time *)
(* which that call has seen.                                               *)
(***************************************************************************)
TickSteps == {FreshnessWindow - 1, FreshnessWindow, SecondsPerDay}

Tick ==
    \E d \in TickSteps :
        /\ ticks < MaxTicks
        /\ now' = now + d
        /\ ticks' = ticks + 1
        /\ ret' = <<>>
        /\ call' = NoCall
        /\ zret' = NoZip
        /\ UNCHANGED <<fs, caseFold, callers, archives, library, characters_cache,
                       last_scan_time, cache_time, changes, temp>>

SpecSlots ==
    { << <<"Session", "_", "A">>, <<"Char", "_", "1">> >>,
      << <<"Old">>, <<"Hero">> >> }

SpecEntries == {BaseOnly(1), Variations(2)}

\* create_session_folder and the files the generator saves under it
create_session_folder ==
    \E p \in SpecSlots \ DOMAIN fs.dirs, e \in SpecEntries :
        /\ Cardinality(DOMAIN fs.dirs) < MaxDirs
        /\ fs' = [fs EXCEPT !.dirs = [q \in DOMAIN fs.dirs \cup {p} |->
                                        IF q = p THEN e ELSE fs.dirs[q]]]
        /\ ret' = <<>>
        /\ call' = NoCall
        /\ zret' = NoZip
        /\ UNCHANGED <<caseFold, callers, archives, library, now, ticks,
                       characters_cache, last_scan_time, cache_time, changes, temp>>

\* a character directory removed from outside the program
ExternalRemove ==
    \E p \in DOMAIN fs.dirs :
        /\ fs' = [fs EXCEPT !.dirs = [q \in DOMAIN fs.dirs \ {p} |-> fs.dirs[q]]]
        /\ ret' = <<>>
        /\ call' = NoCall
        /\ zret' = NoZip
        /\ UNCHANGED <<caseFold, callers, archives, library, now, ticks,
                       characters_cache, last_scan_time, cache_time, changes, temp>>

Init ==
    /\ fs = [dirs |-> <<>>, files |-> RootFiles]
    /\ caseFold \in BOOLEAN
    /\ now = 0
    /\ ticks = 0
    /\ characters_cache = None
    /\ last_scan_time = None
    /\ cache_time = None
    /\ callers = NoCallers
    /\ ret = <<>>
    /\ call = NoCall
    /\ changes = 0
    /\ temp = <<>>
    /\ archives = NotKept
    /\ library = NoLibrary
    /\ zret = NoZip

Next ==
    \/ Discover
    \/ refresh_characters
    \/ Tick
    \/ create_session_folder
    \/ ExternalRemove

Spec == Init /\ [][Next]_vars

(***************************************************************************)
(* Properties of the cache, checked under Spec.                            *)
(***************************************************************************)
DiscoverCall == call.op = "discover"
HadCache == call.cacheBefore # None /\ call.scanBefore # None
Elapsed == now - Get(call.scanBefore)

\* C3: a call without force_refresh made less than 30 seconds after the last
\* scan returns the cached list, whatever the directory tree holds by then,
\* and the list a call returns is the list the cache holds after it: two such
\* calls return the same identities.
C3_FreshCacheServed ==
    /\ DiscoverCall => characters_cache = Some(ret)
    /\ (DiscoverCall /\ ~call.force /\ HadCache
          /\ Elapsed >= 0 /\ Elapsed < FreshnessWindow) =>
         /\ ret = Get(call.cacheBefore)
         /\ Keys(ret) = Keys(Get(call.cacheBefore))
         /\ characters_cache = call.cacheBefore
         /\ last_scan_time = call.scanBefore

\* the tree has changed since the scan and the call still answers from the cache
C3_Witness ==
    /\ DiscoverCall /\ ~call.force /\ HadCache
    /\ Elapsed = FreshnessWindow - 1
    /\ Keys(ret) # Keys(ScanResult(fs, caseFold, None))
    /\ ret # <<>>

\* C4: once 30 seconds or more have passed since the last scan, a call scans
\* the tree again and returns what it holds.
C4_StaleCacheRescanned ==
    (DiscoverCall /\ HadCache /\ Elapsed >= FreshnessWindow) =>
        ret = ScanResult(fs, caseFold, call.unreadable)

\* C5: a call with force_refresh scans whatever the age of the cache; the
\* list of that scan is returned and becomes the cache, with the time of the
\* call as scan time.
C5_ForceRefreshRescans ==
    (DiscoverCall /\ call.force) =>
        /\ call.scanned
        /\ ret = ScanResult(fs, caseFold, call.unreadable)
        /\ characters_cache = Some(ret)
        /\ last_scan_time = Some(now)

\* a forced call inside the freshness window, over a tree that has lost a
\* character the cache still held
C5_Witness ==
    /\ DiscoverCall /\ call.force /\ HadCache
    /\ Elapsed < FreshnessWindow
    /\ \E k \in Keys(Get(call.cacheBefore)) : k \notin Keys(ret)
    /\ ret # <<>>

(***************************************************************************)
(* CharacterZipper.create_character_zip.  An archive is the sequence of    *)
(* its entry names in the order written; an entry name is the sequence of  *)
(* its path components.                                                    *)
(***************************************************************************)
ConsistencyTests == <<"ConsistencyTests">>
Styles == <<"Styles">>
SummaryJson == <<"character_summary", ".json">>
ReadmeTxt == <<"README", ".txt">>

\* the directory a record points to, as the tree holds it now
DirOf(fsys, path) ==
    IF path \in DOMAIN fsys.dirs /\ fsys.dirs[path].kind = "dir"
    THEN Some(fsys.dirs[path]) ELSE None

Globbed(files, suffix, ci) ==
    SelectSeq(Listing(FileNames, files), LAMBDA f : GlobMatch(f, <<>>, suffix, ci))

Under(folder, names) == [i \in 1..Len(names) |-> folder \o <<names[i]>>]

\* the *.json loops run whatever include_metadata says
CharacterEntriesMutantAlwaysJson(fsys, ci, char_info, include_metadata) ==
    LET d == DirOf(fsys, char_info.path)
        base == IF /\ char_info.base_image_path # None
                   /\ d # None
                   /\ Get(char_info.base_image_path) \in Get(d).top
                THEN << <<Get(char_info.base_image_path)>> >> ELSE <<>>
        meta == IF /\ include_metadata
                   /\ char_info.base_metadata # None
                   /\ Truthy(Get(char_info.base_metadata))
                THEN << <<CharacterMetaJson>> >> ELSE <<>>
        cons == IF d # None /\ Get(d).hasConsistency
                THEN Under(<<ConsistencyTests>>, Globbed(Get(d).consistency, <<".png">>, ci))
                     \o Under(<<ConsistencyTests>>, Globbed(Get(d).consistency, <<".json">>, ci))
                ELSE <<>>
        dirs == IF d # None /\ Get(d).hasStyles
                THEN Listing(StyleNames, DOMAIN Get(d).styles) ELSE <<>>
        styled == Concat([k \in 1..Len(dirs) |->
                    Under(<<Styles, dirs[k]>>, Globbed(Get(d).styles[dirs[k]], <<".png">>, ci))
                    \o Under(<<Styles, dirs[k]>>, Globbed(Get(d).styles[dirs[k]], <<".json">>, ci))])
        tail == IF include_metadata THEN << <<SummaryJson>>, <<ReadmeTxt>> >> ELSE <<>>
    IN  base \o meta \o cons \o styled \o tail

\* Lines 33-81: the entries written into the archive of one character.
CharacterEntries(fsys, ci, char_info, include_metadata) ==
    LET d == DirOf(fsys, char_info.path)
        base == IF /\ char_info.base_image_path # None
                   /\ d # None
                   /\ Get(char_info.base_image_path) \in Get(d).top
                THEN << <<Get(char_info.base_image_path)>> >> ELSE <<>>
        meta == IF /\ include_metadata
                   /\ char_info.base_metadata # None
                   /\ Truthy(Get(char_info.base_metadata))
                THEN << <<CharacterMetaJson>> >> ELSE <<>>
        cons == IF d # None /\ Get(d).hasConsistency
                THEN Under(<<ConsistencyTests>>, Globbed(Get(d).consistency, <<".png">>, ci))
                     \o (IF include_metadata
                         THEN Under(<<ConsistencyTests>>,
                                    Globbed(Get(d).consistency, <<".json">>, ci))
                         ELSE <<>>)
                ELSE <<>>
        dirs == IF d # None /\ Get(d).hasStyles
                THEN Listing(StyleNames, DOMAIN Get(d).styles) ELSE <<>>
        styled == Concat([k \in 1..Len(dirs) |->
                    Under(<<Styles, dirs[k]>>, Globbed(Get(d).styles[dirs[k]], <<".png">>, ci))
                    \o (IF include_metadata
                        THEN Under(<<Styles, dirs[k]>>,
                                   Globbed(Get(d).styles[dirs[k]], <<".json">>, ci))
                        ELSE <<>>)])
        tail == IF include_metadata THEN << <<SummaryJson>>, <<ReadmeTxt>> >> ELSE <<>>
    IN  base \o meta \o cons \o styled \o tail

\* zipf.write reads a file of the disk; zipf.writestr writes a document
\* the zipper has built.  rel is an entry name inside the character folder.
IsWriteStr(rel) ==
    Len(rel) = 1 /\ rel[1] \in {CharacterMetaJson, SummaryJson, ReadmeTxt}

\* the directory e after the file behind the entry rel has been deleted
RemoveBacking(e, rel) ==
    CASE Len(rel) = 1 -> [e EXCEPT !.top = @ \ {rel[1]}]
      [] Len(rel) = 2 -> [e EXCEPT !.consistency = @ \ {rel[2]}]
      [] OTHER -> [e EXCEPT !.styles[rel[2]] = @ \ {rel[3]}]

Vanish(fsys, path, rel) ==
    [fsys EXCEPT !.dirs[path] = RemoveBacking(@, rel)]

\* What can go wrong inside the try block of a build:
\*   "tempfile"  NamedTemporaryFile raises (line 29 / 105);
\*   "write"     a write into the archive raises, e.g. the disk is full;
\*   "vanish"    a file is deleted after glob or exists() has seen it and
\*               before zipf.write reads it: os.stat raises FileNotFoundError.
Faults == {"none", "tempfile", "write", "vanish"}

\* the except clause left out: the exception leaves the call
BuildFailureMutantRaises(message) ==
    [NoZip EXCEPT !.message = message, !.raised = TRUE]

\* Lines 90-91 and 175-176: except Exception -> (False, message, None).
BuildFailure(message) ==
    [NoZip EXCEPT !.message = message]

BuildSuccess(message, path, entries, zip_filename) ==
    [NoZip EXCEPT !.success = TRUE, !.message = message,
                  !.path = Some(path), !.entries = entries,
                  !.filename = zip_filename]

\* ret, call and zret hold the result of the last call only for the steps
\* that examine it: a CharacterZipper or handler call starts once the caller
\* has dropped the result of the call before (Forget).
Ready == call.op = "none"

Forget ==
    /\ ~Ready
    /\ ret' = <<>>
    /\ call' = NoCall
    /\ zret' = NoZip
    /\ UNCHANGED <<fs, caseFold, callers, archives, library, now, ticks,
                   characters_cache, last_scan_time, cache_time, changes, temp>>

\* tempfile.NamedTemporaryFile(delete=False, suffix='.zip') creates a file
\* under a name no file bears: one never used (while the disk has room for
\* another), or one whose file has been deleted since.
\* a name is taken whether or not a file bears it
FreeNamesMutantAnyName(files) ==
    DOMAIN files \cup (IF Len(files) < MaxArchives THEN {Len(files) + 1} ELSE {})

FreeNames(files) ==
    {k \in DOMAIN files : ~files[k]}
        \cup (IF Len(files) < MaxArchives THEN {Len(files) + 1} ELSE {})

Created(files, k) ==
    [j \in DOMAIN files \cup {k} |-> IF j = k THEN TRUE ELSE files[j]]

\* the name of the temporary file: 'tmp', random characters, the suffix
TempName(k) == <<"tmp", ToString(k), ".zip">>

\* datetime.now().strftime("%Y%m%d_%H%M%S")
Timestamp(t) == <<ToString(t \div 86400), "_", ToString(t % 86400)>>

\* zip_filename of lines 25-26 and 101-102
ZipFilename(this, t) ==
    IF this.char_info # None
    THEN Get(this.char_info).character_id \o <<"_">> \o Timestamp(t) \o <<".zip">>
    ELSE <<"Characters", "_", "Batch", "_">> \o Timestamp(t) \o <<".zip">>

Kept(k, archive) ==
    IF archives = NotKept THEN archives
    ELSE [j \in DOMAIN archives \cup {k} |-> IF j = k THEN archive ELSE archives[j]]

\* The common course of a build over the listed items; an item is the
\* directory of a record and the entry name inside the character folder.
Build(this, items, entries, failure, success, fault) ==
    /\ Ready
    /\ \E k \in FreeNames(temp) :
        \/ /\ fault = "none"
           /\ temp' = Created(temp, k)
           /\ zret' = BuildSuccess(success, k, entries, ZipFilename(this, now))
           /\ archives' = Kept(k, [by |-> this, tree |-> fs, at |-> now,
                                   entries |-> entries])
           /\ call' = this
           /\ UNCHANGED <<fs, changes>>
        \/ /\ fault = "tempfile"
           /\ zret' = BuildFailure(failure)
           /\ call' = [this EXCEPT !.fault = fault]
           /\ UNCHANGED <<fs, changes, temp, archives>>
        \/ /\ fault = "write"
           /\ entries # <<>>
           /\ temp' = Created(temp, k)
           /\ zret' = BuildFailure(failure)
           /\ call' = [this EXCEPT !.fault = fault]
           /\ UNCHANGED <<fs, changes, archives>>
        \/ /\ fault = "vanish"
           /\ changes < MaxChanges
           /\ \E n \in {j \in DOMAIN items : ~IsWriteStr(items[j].rel)} :
                 /\ fs' = Vanish(fs, items[n].path, items[n].rel)
                 /\ call' = [this EXCEPT !.fault = fault,
                                      !.vanished = Some(items[n])]
           /\ changes' = changes + 1
           /\ temp' = Created(temp, k)
           /\ zret' = BuildFailure(failure)
           /\ UNCHANGED archives
    /\ ret' = <<>>
    /\ UNCHANGED <<caseFold, callers, library, now, ticks>>

Items(char_info, rels) ==
    [k \in DOMAIN rels |-> [path |-> char_info.path, rel |-> rels[k]]]

Discovered == IF characters_cache = None THEN <<>> ELSE Get(characters_cache)

\* The caller passes a record that discovery has given it.
create_character_zip ==
    /\ Ready
    /\ \E i \in DOMAIN Discovered, include_metadata \in BOOLEAN, fault \in Faults :
        LET char_info == Discovered[i]
            entries == CharacterEntries(fs, caseFold, char_info, include_metadata)
            this == [NoCall EXCEPT !.op = "create_character_zip",
                                   !.char_info = Some(char_info),
                                   !.include_metadata = include_metadata]
        IN  /\ Build(this, Items(char_info, entries), entries,
                     "Error creating ZIP", "ZIP created successfully", fault)
            /\ UNCHANGED <<characters_cache, last_scan_time, cache_time>>

(***************************************************************************)
(* ZipSpec: one character directory of a bounded family, discovered,       *)
(* possibly rewritten from outside, and packed.                            *)
(***************************************************************************)
ZipSlot == << <<"Session", "_", "A">>, <<"Char", "_", "1">> >>

ZipTops ==
    { <<{}, "">>,
      <<{BaseCharacterPng, CharacterMetaJson}, "{prompt,parameters,success}">>,
      <<{BaseCharacterPng, CharacterMetaJson}, "{}">>,
      <<{BaseImagePng, ImageMetaJson}, "{prompt:">>,
      <<{BaseImagePng}, "">> }

ZipConsistency ==
    { <<FALSE, {}>>,
      <<TRUE, {Realistic1, Realistic2}>>,
      <<TRUE, {Realistic1, Realistic1Meta}>>,
      <<TRUE, {Realistic1, OtherPng}>> }

ZipStyles ==
    { <<FALSE, NoStyles, {}>>,
      <<TRUE, [st \in {<<"ghibli">>} |-> {Ghibli1}], {}>>,
      <<TRUE, [st \in {<<"ghibli">>, <<"noir">>} |->
                 IF st = <<"ghibli">> THEN {Ghibli1, Ghibli1Meta} ELSE {}], {NotesTxt}>> }

ZipEntries ==
    {Entry("dir", 1, t[1], t[2], c[1], c[2], s[1], s[2], s[3]) :
        t \in ZipTops, c \in ZipConsistency, s \in ZipStyles}

\* what a directory is rewritten to: a generated character with any
\* variations and styles
ZipRewrites ==
    {e \in ZipEntries : e.top = {BaseCharacterPng, CharacterMetaJson} /\ e.meta # "{}"}

\* the files of a character directory rewritten by the generator or the user
ExternalRewrite ==
    \E p \in DOMAIN fs.dirs, e \in ZipRewrites :
        /\ changes < MaxChanges
        /\ e # fs.dirs[p]
        /\ changes' = changes + 1
        /\ fs' = [fs EXCEPT !.dirs[p] = e]
        /\ ret' = <<>>
        /\ call' = NoCall
        /\ zret' = NoZip
        /\ UNCHANGED <<caseFold, callers, archives, library, now, ticks,
                       characters_cache, last_scan_time, cache_time, temp>>

ZipInit ==
    /\ \E e \in ZipEntries : fs = [dirs |-> [p \in {ZipSlot} |-> e], files |-> RootFiles]
    /\ caseFold = FALSE
    /\ now = 0
    /\ ticks = 0
    /\ characters_cache = None
    /\ last_scan_time = None
    /\ cache_time = None
    /\ callers = NoCallers
    /\ ret = <<>>
    /\ call = NoCall
    /\ changes = 0
    /\ temp = <<>>
    /\ archives = NotKept
    /\ library = NoLibrary
    /\ zret = NoZip

ZipNext ==
    \/ Discover
    \/ ExternalRewrite
    \/ create_character_zip
    \/ Forget

ZipSpec == ZipInit /\ [][ZipNext]_vars

(***************************************************************************)
(* Properties of the single-character archive, checked under ZipSpec.      *)
(***************************************************************************)
ZipCall == call.op = "create_character_zip" /\ zret.success
Packed == Get(call.char_info)
EntrySet == {zret.entries[i] : i \in DOMAIN zret.entries}
FileName(entry) == entry[Len(entry)]

\* C9: an archive built with include_metadata = False has no entry whose
\* name ends in .json and no entry README.txt, whatever the record and
\* whatever its directory holds.
C9_NoMetadataEntries ==
    (ZipCall /\ ~call.include_metadata) =>
        \A entry \in EntrySet :
            /\ ~EndsWith(FileName(entry), <<".json">>)
            /\ FileName(entry) # ReadmeTxt

\* the record carries a metadata document and its folders hold *.json files
C9_Witness ==
    /\ ZipCall /\ ~call.include_metadata
    /\ Packed.base_metadata # None /\ Truthy(Get(Packed.base_metadata))
    /\ DirOf(fs, Packed.path) # None
    /\ Realistic1Meta \in Get(DirOf(fs, Packed.path)).consistency
    /\ \E st \in DOMAIN Get(DirOf(fs, Packed.path)).styles :
         Ghibli1Meta \in Get(DirOf(fs, Packed.path)).styles[st]
    /\ Len(zret.entries) >= 3

\* the directory of the record is as discovery has found it
Unchanged(char_info) ==
    /\ char_info.path \in DOMAIN fs.dirs
    /\ analyze_character_directory(fs, char_info.session_id, char_info.character_id,
                                   char_info.via, caseFold, None) = Some(char_info)

IsRealisticName(f) == StartsWith(f, <<"Realistic", "_">>) /\ EndsWith(f, <<".png">>)
IsJsonName(f) == EndsWith(f, <<".json">>)
IsImageName(f) == EndsWith(f, <<".png">>)

\* the entry set C10 states for a record and its directory e
StatedEntries(char_info, e) ==
    (IF char_info.base_image_path # None
     THEN {<<Get(char_info.base_image_path)>>} ELSE {})
    \cup (IF char_info.base_metadata # None /\ Truthy(Get(char_info.base_metadata))
          THEN {<<CharacterMetaJson>>} ELSE {})
    \cup {<<ConsistencyTests, f>> :
            f \in {g \in (IF e.hasConsistency THEN e.consistency ELSE {}) :
                     IsRealisticName(g) \/ IsJsonName(g)}}
    \cup UNION {{<<Styles, st, f>> :
                   f \in {g \in e.styles[st] : IsImageName(g) \/ IsJsonName(g)}} :
                st \in (IF e.hasStyles THEN DOMAIN e.styles ELSE {})}
    \cup {<<SummaryJson>>, <<ReadmeTxt>>}

\* C10: for a record whose directory is unchanged, the archive built with
\* include_metadata = True holds exactly the stated entries: of the folder
\* ConsistencyTests the realistic-variation images and the *.json files and
\* nothing else.
C10_ExactEntrySet ==
    (ZipCall /\ call.include_metadata /\ Unchanged(Packed)) =>
        EntrySet = StatedEntries(Packed, fs.dirs[Packed.path])

\* the example of the claim: base image, metadata, two variations, one
\* ghibli image and no metadata file beside the images make seven entries
C10_SevenEntries ==
    (ZipCall /\ call.include_metadata /\ Unchanged(Packed)
       /\ fs.dirs[Packed.path] =
            Entry("dir", 1, {BaseCharacterPng, CharacterMetaJson},
                  "{prompt,parameters,success}", TRUE, {Realistic1, Realistic2},
                  TRUE, [st \in {<<"ghibli">>} |-> {Ghibli1}], {})) =>
        /\ Len(zret.entries) = 7
        /\ Cardinality(EntrySet) = 7

(***************************************************************************)
(* CharacterZipper.create_batch_zip.                                       *)
(***************************************************************************)
MaxBatch == 2

BatchSummaryJson == <<"batch_summary", ".json">>

\* the time of the build in the name of the folder
CharFolderMutantStamped(char_info) ==
    char_info.session_id \o <<"_">> \o char_info.character_id \o Timestamp(now)

\* Line 113: char_folder = f"{char_info.session_id}_{char_info.character_id}"
CharFolder(char_info) == char_info.session_id \o <<"_">> \o char_info.character_id

\* Lines 115-157: the entries of one character of a batch, as names inside
\* its folder.
BatchCharacterEntries(fsys, ci, char_info, include_metadata) ==
    LET d == DirOf(fsys, char_info.path)
        base == IF /\ char_info.base_image_path # None
                   /\ d # None
                   /\ Get(char_info.base_image_path) \in Get(d).top
                THEN << <<Get(char_info.base_image_path)>> >> ELSE <<>>
        meta == IF /\ include_metadata
                   /\ char_info.base_metadata # None
                   /\ Truthy(Get(char_info.base_metadata))
                THEN << <<CharacterMetaJson>> >> ELSE <<>>
        cons == IF d # None /\ Get(d).hasConsistency
                THEN Under(<<ConsistencyTests>>, Globbed(Get(d).consistency, <<".png">>, ci))
                     \o (IF include_metadata
                         THEN Under(<<ConsistencyTests>>,
                                    Globbed(Get(d).consistency, <<".json">>, ci))
                         ELSE <<>>)
                ELSE <<>>
        dirs == IF d # None /\ Get(d).hasStyles
                THEN Listing(StyleNames, DOMAIN Get(d).styles) ELSE <<>>
        styled == Concat([k \in 1..Len(dirs) |->
                    Under(<<Styles, dirs[k]>>, Globbed(Get(d).styles[dirs[k]], <<".png">>, ci))
                    \o (IF include_metadata
                        THEN Under(<<Styles, dirs[k]>>,
                                   Globbed(Get(d).styles[dirs[k]], <<".json">>, ci))
                        ELSE <<>>)])
        summary == IF include_metadata THEN << <<SummaryJson>> >> ELSE <<>>
    IN  base \o meta \o cons \o styled \o summary

\* the root-level documents written whatever include_metadata says
BatchTailMutantAlways(include_metadata) ==
    << <<BatchSummaryJson>>, <<ReadmeTxt>> >>

\* Lines 160-166.
BatchTail(include_metadata) ==
    IF include_metadata THEN << <<BatchSummaryJson>>, <<ReadmeTxt>> >> ELSE <<>>

BatchItems(fsys, ci, characters, include_metadata) ==
    Concat([k \in DOMAIN characters |->
              Items(characters[k],
                    BatchCharacterEntries(fsys, ci, characters[k], include_metadata))])

\* arcname = f"{char_folder}/..."
InFolder(folder, rels) == [i \in DOMAIN rels |-> <<folder>> \o rels[i]]

\* Lines 112-166: the entries written into the archive of a batch.
BatchEntries(fsys, ci, characters, include_metadata) ==
    Concat([k \in DOMAIN characters |->
              InFolder(CharFolder(characters[k]),
                       BatchCharacterEntries(fsys, ci, characters[k], include_metadata))])
    \o BatchTail(include_metadata)

\* the temporary file made before the test of the list
EmptyBatchMutantTempFirst(this) ==
    /\ Ready
    /\ \E k \in FreeNames(temp) : temp' = Created(temp, k)
    /\ zret' = BuildFailure("No characters selected")
    /\ call' = this
    /\ ret' = <<>>
    /\ UNCHANGED <<fs, caseFold, callers, archives, library, now, ticks, changes>>

\* Lines 97-98: nothing has been created when the list is found empty.
EmptyBatch(this) ==
    /\ Ready
    /\ zret' = BuildFailure("No characters selected")
    /\ call' = this
    /\ ret' = <<>>
    /\ UNCHANGED <<fs, caseFold, callers, archives, library, now, ticks, changes,
                   temp>>

\* the lists of at most MaxBatch records of discovered
Selections(discovered) ==
    UNION {[1..m -> DOMAIN discovered] : m \in 0..MaxBatch}

create_batch_zip_of(characters, include_metadata, fault, this) ==
    IF characters = <<>>
    THEN fault = "none" /\ EmptyBatch(this)
    ELSE \E items \in {BatchItems(fs, caseFold, characters, include_metadata)},
            entries \in {BatchEntries(fs, caseFold, characters, include_metadata)} :
             Build(this, items, entries,
                   "Error creating batch ZIP", "Batch ZIP created", fault)

create_batch_zip ==
    /\ Ready
    /\ \E sel \in Selections(Discovered), include_metadata \in BOOLEAN, fault \in Faults :
        LET characters == [k \in DOMAIN sel |-> Discovered[sel[k]]]
            this == [NoCall EXCEPT !.op = "create_batch_zip",
                                   !.characters = characters,
                                   !.include_metadata = include_metadata]
        IN  /\ create_batch_zip_of(characters, include_metadata, fault, this)
            /\ UNCHANGED <<characters_cache, last_scan_time, cache_time>>

(***************************************************************************)
(* CharacterZipper.get_estimated_zip_size.                                 *)
(***************************************************************************)
\* stat().st_size of a file, by its name
SizeOf(f) ==
    CASE f = BaseCharacterPng -> 1400000
      [] f = BaseImagePng -> 1300000
      [] f = Realistic1 -> 1234567
      [] f = Realistic2 -> 1100000
      [] f = OtherPng -> 700001
      [] f = Ghibli1 -> 900003
      [] OTHER -> 2048

\* the *.json files of ConsistencyTests counted too
SizedEntriesMutantCountsJson(fsys, ci, char) ==
    LET d == DirOf(fsys, char.path)
        base == IF /\ char.base_image_path # None
                   /\ d # None
                   /\ Get(char.base_image_path) \in Get(d).top
                THEN << <<Get(char.base_image_path)>> >> ELSE <<>>
        cons == IF d # None /\ Get(d).hasConsistency
                THEN Under(<<ConsistencyTests>>, Listing(FileNames, Get(d).consistency))
                ELSE <<>>
        dirs == IF d # None /\ Get(d).hasStyles
                THEN Listing(StyleNames, DOMAIN Get(d).styles) ELSE <<>>
        styled == Concat([k \in 1..Len(dirs) |->
                    Under(<<Styles, dirs[k]>>,
                          Globbed(Get(d).styles[dirs[k]], <<".png">>, ci))])
    IN  base \o cons \o styled

\* Lines 331-347: the files of one character whose sizes are added.
SizedEntries(fsys, ci, char) ==
    LET d == DirOf(fsys, char.path)
        base == IF /\ char.base_image_path # None
                   /\ d # None
                   /\ Get(char.base_image_path) \in Get(d).top
                THEN << <<Get(char.base_image_path)>> >> ELSE <<>>
        cons == IF d # None /\ Get(d).hasConsistency
                THEN Under(<<ConsistencyTests>>, Globbed(Get(d).consistency, <<".png">>, ci))
                ELSE <<>>
        dirs == IF d # None /\ Get(d).hasStyles
                THEN Listing(StyleNames, DOMAIN Get(d).styles) ELSE <<>>
        styled == Concat([k \in 1..Len(dirs) |->
                    Under(<<Styles, dirs[k]>>,
                          Globbed(Get(d).styles[dirs[k]], <<".png">>, ci))])
    IN  base \o cons \o styled

SizedItems(fsys, ci, characters) ==
    Concat([k \in DOMAIN characters |->
              Items(characters[k], SizedEntries(fsys, ci, characters[k]))])

RECURSIVE TotalSize(_)
TotalSize(items) ==
    IF items = <<>> THEN 0
    ELSE SizeOf(Head(items).rel[Len(Head(items).rel)]) + TotalSize(Tail(items))

RECURSIVE Pow2Floor(_)
Pow2Floor(n) == IF n < 2 THEN 1 ELSE 2 * Pow2Floor(n \div 2)

\* Line 350: int(total_size * 0.7) in binary floating point.  The double
\* nearest to 0.7 is 0.7 - 0.4 * 2^-53, so the product lies below 7*total/10
\* by 0.4 * total * 2^-53.  When 7*total/10 is an integer N in
\* [2^k, 2^(k+1)) the product rounds to N if 4*N <= 7*2^k (round to nearest,
\* ties to even) and to the double below N otherwise, whose integer part is
\* N - 1; when it is no integer the integer part is unaffected.
Scaled(total) ==
    LET N == (7 * total) \div 10
    IN  IF (7 * total) % 10 = 0 /\ N > 0 /\ 4 * N > 7 * Pow2Floor(N)
        THEN N - 1 ELSE N

Kibi == 1024

\* Lines 353-358: the unit of the formatted size.
SizeStr(n) ==
    CASE n > Kibi * Kibi * Kibi -> "GB"
      [] n > Kibi * Kibi -> "MB"
      [] OTHER -> "KB"

\* the sum reached so far returned
EstimateFailureMutantPartial(partial) ==
    [NoZip EXCEPT !.size = Scaled(partial), !.message = SizeStr(Scaled(partial))]

\* Lines 362-363: except Exception -> (0, "Unknown").
EstimateFailure(partial) ==
    [NoZip EXCEPT !.size = 0, !.message = "Unknown"]

EstimateFaults == {"none", "stat", "vanish"}

get_estimated_zip_size ==
    /\ Ready
    /\ \E sel \in Selections(Discovered), fault \in EstimateFaults :
        LET characters == [k \in DOMAIN sel |-> Discovered[sel[k]]]
            items == SizedItems(fs, caseFold, characters)
            this == [NoCall EXCEPT !.op = "get_estimated_zip_size",
                                   !.characters = characters, !.fault = fault]
        IN  /\ Ready
            /\ \/ /\ fault = "none"
                  /\ zret' = [NoZip EXCEPT !.size = Scaled(TotalSize(items)),
                                           !.message = SizeStr(Scaled(TotalSize(items)))]
                  /\ call' = this
                  /\ UNCHANGED <<fs, changes>>
               \/ /\ fault = "stat"
                  /\ \E k \in DOMAIN items :
                        zret' = EstimateFailure(TotalSize(SubSeq(items, 1, k - 1)))
                  /\ call' = this
                  /\ UNCHANGED <<fs, changes>>
               \/ /\ fault = "vanish"
                  /\ changes < MaxChanges
                  /\ \E k \in DOMAIN items :
                        /\ fs' = Vanish(fs, items[k].path, items[k].rel)
                        /\ zret' = EstimateFailure(TotalSize(SubSeq(items, 1, k - 1)))
                        /\ call' = [this EXCEPT !.vanished = Some(items[k])]
                  /\ changes' = changes + 1
            /\ ret' = <<>>
            /\ UNCHANGED <<caseFold, callers, archives, library, now, ticks,
                           characters_cache, last_scan_time, cache_time, temp>>

(***************************************************************************)
(* The download handlers of the application (app.py), which look the       *)
(* selected identities up through CharacterManager.get_character_by_id.    *)
(* Their result (message, path) is kept in zret.                           *)
(***************************************************************************)
\* character_manager.py lines 278-286, on the list discover_characters returns
GetCharacterById(characters, session_id, character_id) ==
    LET found == SelectSeq(characters,
                           LAMBDA c : c.session_id = session_id
                                      /\ c.character_id = character_id)
    IN  IF found = <<>> THEN None ELSE Some(Head(found))

\* the tree scanned whatever the cache holds
LookupMutantForced(unreadable) == ScanResult(fs, caseFold, unreadable)

\* discover_characters() as get_character_by_id calls it: without force
Lookup(unreadable) ==
    IF UseCache(FALSE, characters_cache, last_scan_time, now)
    THEN Get(characters_cache)
    ELSE ScanResult(fs, caseFold, unreadable)

LookupUpdate(unreadable) ==
    IF UseCache(FALSE, characters_cache, last_scan_time, now)
    THEN UNCHANGED <<characters_cache, last_scan_time, cache_time>>
    ELSE /\ characters_cache' = Some(Lookup(unreadable))
         /\ last_scan_time' = Some(now)
         /\ cache_time' = Some(now)

\* the listings that can fail during the lookup: none when the cache serves
ScanUnreadables ==
    IF UseCache(FALSE, characters_cache, last_scan_time, now)
    THEN {None} ELSE Unreadables(fs)

\* the identities a caller can ask for: the directories of the tree, those
\* of the cached records, and the two the generator writes to
LookupIdentities ==
    DOMAIN fs.dirs \cup SpecSlots
        \cup {<<Discovered[i].session_id, Discovered[i].character_id>> :
                 i \in DOMAIN Discovered}

\* character_manager.py lines 278-286; ret is the optional record returned
get_character_by_id ==
    /\ Ready
    /\ \E id \in LookupIdentities, u \in ScanUnreadables :
        /\ ret' = GetCharacterById(Lookup(u), id[1], id[2])
        /\ LookupUpdate(u)
        /\ call' = [NoCall EXCEPT !.op = "get_character_by_id",
                                  !.selection = <<id>>,
                                  !.cacheBefore = characters_cache,
                                  !.scanBefore = last_scan_time,
                                  !.unreadable = u]
    /\ zret' = NoZip
    /\ UNCHANGED <<fs, caseFold, callers, archives, library, now, ticks, changes,
                   temp>>

\* a handler that returns a message and no path without building
Refuse(this, message) ==
    /\ Ready
    /\ zret' = [NoZip EXCEPT !.message = message]
    /\ call' = this
    /\ ret' = <<>>
    /\ UNCHANGED <<fs, caseFold, callers, archives, library, now, ticks, changes,
                   temp>>

\* the identities a user can have selected: the directories of the tree
AppIdentities == DOMAIN fs.dirs

download_character_zip ==
    /\ Ready
    /\ \E data \in {None} \cup {Some(id) : id \in AppIdentities},
       include_metadata \in BOOLEAN, fault \in Faults, u \in ScanUnreadables :
        LET this == [NoCall EXCEPT !.op = "download_character_zip",
                                   !.selection = data,
                                   !.include_metadata = include_metadata]
        IN  IF data = None
            THEN /\ fault = "none" /\ u = None
                 /\ Refuse(this, "No character selected")
                 /\ UNCHANGED <<characters_cache, last_scan_time, cache_time>>
            ELSE \E char \in {GetCharacterById(Lookup(u), Get(data)[1], Get(data)[2])} :
                     /\ LookupUpdate(u)
                     /\ IF char = None
                        THEN fault = "none" /\ Refuse(this, "Character not found")
                        ELSE \E entries \in {CharacterEntries(fs, caseFold, Get(char),
                                                               include_metadata)} :
                                 Build([this EXCEPT !.char_info = char],
                                       Items(Get(char), entries), entries,
                                       "Error creating ZIP", "ZIP created successfully",
                                       fault)

\* app.py lines 228-235: the records found, in the order selected; an
\* identity that is not found is left out.
Selected(characters, selection) ==
    Concat([k \in DOMAIN selection |->
              GetCharacterById(characters, selection[k][1], selection[k][2])])

IdentitySelections ==
    UNION {[1..m -> AppIdentities] : m \in 0..MaxBatch}

download_batch_zip ==
    /\ Ready
    /\ \E selection \in IdentitySelections, include_metadata \in BOOLEAN,
       fault \in Faults, u \in ScanUnreadables :
        LET this == [NoCall EXCEPT !.op = "download_batch_zip",
                                   !.selection = selection,
                                   !.include_metadata = include_metadata]
        IN  IF selection = <<>>
            THEN /\ fault = "none" /\ u = None
                 /\ Refuse(this, "No characters selected")
                 /\ UNCHANGED <<characters_cache, last_scan_time, cache_time>>
            ELSE \E characters \in {Selected(Lookup(u), selection)} :
                     /\ LookupUpdate(u)
                     /\ IF characters = <<>>
                        THEN fault = "none" /\ Refuse(this, "No valid characters found")
                        ELSE create_batch_zip_of(characters, include_metadata, fault,
                                                 [this EXCEPT !.characters = characters])

(***************************************************************************)
(* BatchSpec: a tree of character directories, discovered, then packed,    *)
(* sized and downloaded, one or several at a time.                         *)
(***************************************************************************)
SlotA1 == << <<"Session", "_", "A">>, <<"Char", "_", "1">> >>
SlotOldHero == << <<"Old">>, <<"Hero">> >>
\* a directory neither pass of the scan visits
SlotAHero == << <<"Session", "_", "A">>, <<"Hero">> >>

Complete(t) ==
    Entry("dir", t, {BaseCharacterPng, CharacterMetaJson}, "{prompt,parameters,success}",
          TRUE, {Realistic1, Realistic1Meta},
          TRUE, [st \in {<<"ghibli">>} |-> {Ghibli1, Ghibli1Meta}], {})

Tree(d) == [dirs |-> d, files |-> RootFiles]

BatchFsUniverse ==
    { Tree([p \in {SlotA1} |-> Complete(3)]),
      Tree([p \in {SlotA1, SlotOldHero} |->
              IF p = SlotA1 THEN Complete(3) ELSE BaseOnly(1)]),
      Tree([p \in {SlotA1, SlotOldHero} |->
              IF p = SlotA1 THEN Variations(2) ELSE Complete(3)]),
      Tree([p \in {SlotA1, SlotAHero} |->
              IF p = SlotA1 THEN BaseOnly(1) ELSE Complete(3)]) }

BatchInit ==
    /\ fs \in BatchFsUniverse
    /\ caseFold = FALSE
    /\ now = 0
    /\ ticks = 0
    /\ characters_cache = None
    /\ last_scan_time = None
    /\ cache_time = None
    /\ callers = NoCallers
    /\ ret = <<>>
    /\ call = NoCall
    /\ changes = 0
    /\ temp = <<>>
    /\ archives = NotKept
    /\ library = NoLibrary
    /\ zret = NoZip

\* app.py line 165: the library view lists the characters
refresh_character_library ==
    /\ Ready
    /\ discover_characters(FALSE, None, "discover")

BatchNext ==
    \/ refresh_character_library
    \/ create_character_zip
    \/ create_batch_zip
    \/ get_estimated_zip_size
    \/ download_character_zip
    \/ download_batch_zip
    \/ Forget

BatchSpec == BatchInit /\ [][BatchNext]_vars

(***************************************************************************)
(* Properties of the archives, the size estimate and the download          *)
(* handlers, checked under BatchSpec.                                      *)
(***************************************************************************)
BatchOps == {"create_batch_zip", "download_batch_zip"}
BuildOps == {"create_character_zip", "create_batch_zip",
             "download_character_zip", "download_batch_zip"}

\* a batch archive has been built from the records call.characters
BatchBuilt == call.op \in BatchOps /\ zret.success /\ call.characters # <<>>

Prefixes == {CharFolder(call.characters[k]) : k \in DOMAIN call.characters}
IsPrefixed(entry) == Len(entry) >= 2 /\ entry[1] \in Prefixes
Occurrences(entry) == Cardinality({i \in DOMAIN zret.entries : zret.entries[i] = entry})

\* C11 as stated: in every batch archive, for either value of
\* include_metadata, every entry but the root-level batch_summary.json and
\* README.txt lies under one of the '<session_id>_<character_id>/' prefixes,
\* and batch_summary.json and README.txt each occur exactly once at the root.
C11_RootDocumentsAlways ==
    BatchBuilt =>
        /\ \A entry \in EntrySet :
              entry \in {<<BatchSummaryJson>>, <<ReadmeTxt>>} \/ IsPrefixed(entry)
        /\ Occurrences(<<BatchSummaryJson>>) = 1
        /\ Occurrences(<<ReadmeTxt>>) = 1

\* C11 amended: every entry but the root-level batch_summary.json and
\* README.txt lies under one of the prefixes; batch_summary.json and
\* README.txt each occur exactly once at the root when include_metadata is
\* True and not at all when it is False.
C11_BatchPrefixing ==
    BatchBuilt =>
        /\ \A entry \in EntrySet :
              entry \in {<<BatchSummaryJson>>, <<ReadmeTxt>>} \/ IsPrefixed(entry)
        /\ Occurrences(<<BatchSummaryJson>>) = (IF call.include_metadata THEN 1 ELSE 0)
        /\ Occurrences(<<ReadmeTxt>>) = (IF call.include_metadata THEN 1 ELSE 0)

\* two different characters packed without metadata
C11_Witness ==
    /\ BatchBuilt /\ ~call.include_metadata
    /\ Cardinality(Prefixes) = 2
    /\ Len(zret.entries) >= 3

StripPrefix(entry) == SubSeq(entry, 2, Len(entry))
UnderFolder(folder) ==
    {StripPrefix(entry) : entry \in {x \in EntrySet : Len(x) >= 2 /\ x[1] = folder}}
SetOf(seq) == {seq[i] : i \in DOMAIN seq}

\* C12: for every record of a batch and either value of include_metadata,
\* the batch entries under the record's prefix, the prefix stripped, are the
\* entries create_character_zip writes for the same record, flag and tree.
C12_BatchMatchesSingle ==
    BatchBuilt =>
        \A k \in DOMAIN call.characters :
            UnderFolder(CharFolder(call.characters[k]))
              = SetOf(CharacterEntries(fs, caseFold, call.characters[k],
                                       call.include_metadata))

\* the two layouts agree on everything but the README.txt of the character
C12_SameButReadme ==
    BatchBuilt =>
        \A k \in DOMAIN call.characters :
            UnderFolder(CharFolder(call.characters[k]))
              = SetOf(CharacterEntries(fs, caseFold, call.characters[k],
                                       call.include_metadata)) \ {<<ReadmeTxt>>}

\* the step is a call of create_batch_zip with an empty list, directly or
\* through the handler
EmptyBatchStep ==
    /\ call.op = "none"
    /\ \/ call'.op = "create_batch_zip" /\ call'.characters = <<>>
       \/ call'.op = "download_batch_zip" /\ call'.selection = <<>>

\* C13: create_batch_zip called with an empty list returns (False, a 'no
\* characters selected' message, None) and creates no temporary file.
C13_EmptyBatchRefused ==
    [][EmptyBatchStep =>
          /\ ~zret'.success
          /\ zret'.message = "No characters selected"
          /\ zret'.path = None
          /\ ~zret'.raised
          /\ temp' = temp]_vars

C13_Witness ==
    /\ call.op = "create_batch_zip" /\ call.characters = <<>>
    /\ zret.message = "No characters selected"
    /\ characters_cache # None /\ Get(characters_cache) # <<>>

\* C14: create_character_zip and create_batch_zip never raise; whenever an
\* error occurs inside the build they return success=False with a message
\* and no path, and a path is returned only together with success=True.
C14_FailSoftly ==
    call.op \in BuildOps =>
        /\ ~zret.raised
        /\ call.fault # "none" =>
              (~zret.success /\ zret.message # "" /\ zret.path = None)
        /\ zret.path # None => zret.success

\* a write into the archive of a batch has failed
C14_Witness ==
    /\ call.op = "create_batch_zip" /\ call.fault = "write"
    /\ Len(call.characters) = 2
    /\ ~zret.success /\ zret.path = None
    /\ temp # <<>>

\* the entries a build of the call's records writes from the tree as it is
EntriesNow ==
    IF call.op \in BatchOps
    THEN BatchEntries(fs, caseFold, call.characters, call.include_metadata)
    ELSE CharacterEntries(fs, caseFold, Get(call.char_info), call.include_metadata)

\* C15: when a backing file disappears while a build runs, also after it
\* was listed and before it is written, the build succeeds and the archive
\* lacks only that file.
C15_VanishedFileOmitted ==
    (call.op \in BuildOps /\ call.vanished # None) =>
        /\ zret.success
        /\ zret.entries = EntriesNow

EstimateCall == call.op = "get_estimated_zip_size"

\* the image files a build of the call's records includes, with or without
\* metadata: the entries read from the disk that are no *.json file
BuildImages ==
    SelectSeq(BatchItems(fs, caseFold, call.characters, TRUE),
              LAMBDA item : ~IsWriteStr(item.rel)
                            /\ ~IsJsonName(item.rel[Len(item.rel)]))

\* C16 as stated: the byte count is the integer part of 0.7 times the sum
\* of the sizes of the image files a build includes.
C16_IntegerPartOfSeventyPercent ==
    (EstimateCall /\ call.fault = "none") =>
        zret.size = (7 * TotalSize(BuildImages)) \div 10

\* C16 amended: with S the sum of the sizes of exactly the image files a
\* build includes (no *.json file, whatever include_metadata), the byte
\* count is int(S * 0.7) in binary floating point: the integer part of
\* 0.7 * S, or one less than it when 0.7 * S is a whole number.
C16_EstimateOfBuildImages ==
    (EstimateCall /\ call.fault = "none") =>
        LET S == TotalSize(BuildImages)
            N == (7 * S) \div 10
        IN  /\ zret.size \in {N - 1, N}
            /\ zret.size = N - 1 => (7 * S) % 10 = 0
            /\ zret.message # "Unknown"

\* two characters are sized, one of them with *.json files beside its images
C16_Witness ==
    /\ EstimateCall /\ call.fault = "none"
    /\ Len(call.characters) = 2
    /\ \E k \in DOMAIN call.characters :
          /\ DirOf(fs, call.characters[k].path) # None
          /\ Realistic1Meta \in Get(DirOf(fs, call.characters[k].path)).consistency
    /\ zret.size > 0

EstimateStep == call.op = "none" /\ call'.op = "get_estimated_zip_size"

\* C17: get_estimated_zip_size never raises and creates no archive; when an
\* I/O error occurs while a file is sized it returns exactly (0, "Unknown"),
\* whatever it had summed before.
C17_EstimateFailsToUnknown ==
    [][EstimateStep =>
          /\ ~zret'.raised
          /\ temp' = temp
          /\ zret'.path = None
          /\ call'.fault # "none" => (zret'.size = 0 /\ zret'.message = "Unknown")]_vars

\* a file vanishes after sizes have been added
C17_Witness ==
    /\ EstimateCall /\ call.fault = "vanish"
    /\ Len(call.characters) = 2
    /\ call.vanished # None
    /\ Get(call.vanished).path = call.characters[2].path
    /\ call.characters[1].path # call.characters[2].path
    /\ zret.size = 0 /\ zret.message = "Unknown"

DownloadOps == {"download_character_zip", "download_batch_zip"}

\* the selected identity is not among the characters discovery has returned
\* to the handler
NotFound(id) == GetCharacterById(Get(characters_cache), id[1], id[2]) = None

\* C18: a download request naming an identity that discovery does not find
\* (the one selected, or any of those selected for a batch) ends with a
\* failure message and no archive path, and no exception.
C18_InvalidSelectionRefused ==
    (/\ call.op \in DownloadOps
     /\ \E k \in DOMAIN call.selection : NotFound(call.selection[k])) =>
        /\ ~zret.success
        /\ zret.path = None
        /\ zret.message # ""
        /\ ~zret.raised

\* the single download refuses an identity that is not found
C18_SingleRefused ==
    (/\ call.op = "download_character_zip"
     /\ \E k \in DOMAIN call.selection : NotFound(call.selection[k])) =>
        /\ ~zret.success
        /\ zret.path = None
        /\ zret.message = "Character not found"

(***************************************************************************)
(* The session materializer: create_character of app.py, which calls       *)
(* CharacterCreator.create_base_character and create_session_folder.       *)
(***************************************************************************)
Blank == <<>>

SessionFields == {Blank, <<"Session", "_", "A">>, <<"Old">>}
CharacterFields == {Blank, <<"Char", "_", "1">>, <<"Hero">>}

\* utils.py lines 25-32: the three directories, nothing in them
EmptyFolders(t) == Entry("dir", t, {}, "", TRUE, {}, TRUE, NoStyles, {})

\* character_creator.py lines 69-78: the image and its metadata saved
WithBaseCharacter(e) ==
    [e EXCEPT !.top = @ \cup {BaseCharacterPng, CharacterMetaJson},
              !.meta = "{prompt,parameters,success}"]

create_character ==
    /\ Ready
    /\ \E session_field \in SessionFields, character_field \in CharacterFields,
          generated \in BOOLEAN :
        LET session_id == IF session_field = Blank THEN AutoSessionId(now)
                          ELSE session_field
            character_id == IF character_field = Blank THEN AutoCharacterId(now)
                            ELSE character_field
            p == <<session_id, character_id>>
            \* mkdir(parents=True, exist_ok=True)
            folder == IF p \in DOMAIN fs.dirs THEN fs.dirs[p] ELSE EmptyFolders(1)
            e == IF generated THEN WithBaseCharacter(folder) ELSE folder
        IN  /\ p \in DOMAIN fs.dirs \/ Cardinality(DOMAIN fs.dirs) < MaxDirs
            /\ fs' = [fs EXCEPT !.dirs = [q \in DOMAIN fs.dirs \cup {p} |->
                                            IF q = p THEN e ELSE fs.dirs[q]]]
            /\ ret' = <<>>
            /\ call' = [NoCall EXCEPT !.op = "create_character",
                                      !.selection = IF generated THEN <<p>> ELSE <<>>]
            /\ zret' = NoZip
            /\ UNCHANGED <<caseFold, callers, archives, library, now, ticks,
                           characters_cache, last_scan_time, cache_time, changes,
                           temp>>

(***************************************************************************)
(* MaterializeSpec: characters are created through the application and     *)
(* discovered.                                                             *)
(***************************************************************************)
\* refresh_characters called once the result before has been dropped, every
\* listing succeeding
Rescan ==
    /\ Ready
    /\ discover_characters(TRUE, None, "discover")

MaterializeNext ==
    \/ create_character
    \/ Rescan
    \/ Forget

MaterializeSpec == Init /\ [][MaterializeNext]_vars

\* the directories under which the materializer has saved a base image
Materialized == {p \in DOMAIN fs.dirs : BaseCharacterPng \in fs.dirs[p].top}

\* a forced discovery during which every listing succeeds
ForcedScan == call.op = "discover" /\ call.force /\ call.unreadable = None

\* C19: every character the materializer has written, under whichever
\* identifiers the application produces (those generated for blank fields
\* included), is returned by the next forced discover_characters with the
\* same session_id and character_id.
C19_MaterializedIsDiscovered ==
    ForcedScan =>
        \A p \in Materialized :
            \E i \in DOMAIN ret : ret[i].session_id = p[1] /\ ret[i].character_id = p[2]

\* the identifiers the user has typed, of the conventions the scan knows,
\* are found
C19_KnownConventionsFound ==
    ForcedScan =>
        \A p \in Materialized :
            (\/ (StartsWith(p[1], <<"Session", "_">>) /\ StartsWith(p[2], <<"Char", "_">>))
             \/ ~StartsWith(p[1], <<"Session", "_">>))
            => \E i \in DOMAIN ret : ret[i].session_id = p[1] /\ ret[i].character_id = p[2]

\* both fields left blank: the character is never found
C19_AutoIdsFound ==
    ForcedScan =>
        (<<AutoSessionId(now), AutoCharacterId(now)>> \in Materialized
           => \E i \in DOMAIN ret : ret[i].character_id = AutoCharacterId(now))

\* ------------------------------------------------------------------------
\* discover_characters line by line, entered by several handler threads.
\* CharacterManager holds no lock: between two lines of one call the other
\* caller may run any of its own.
\* ------------------------------------------------------------------------

At(c, pc) == callers[c].pc = pc

Goto(c, pc, current_time, characters) ==
    callers' = [callers EXCEPT ![c] = [pc |-> pc, current_time |-> current_time,
                                        characters |-> characters]]

\* line 52: current_time = datetime.now()
ReadClock(c) ==
    /\ At(c, "idle")
    /\ Goto(c, "test", now, <<>>)
    /\ ret' = <<>>
    /\ call' = NoCall
    /\ UNCHANGED <<fs, caseFold, archives, library, now, ticks, characters_cache,
                   last_scan_time, cache_time, changes, temp, zret>>

\* lines 55-59: the cache is returned when it is recent
TestCache(c) ==
    /\ At(c, "test")
    /\ IF UseCache(FALSE, characters_cache, last_scan_time, callers[c].current_time)
       THEN /\ Goto(c, "idle", 0, <<>>)
            /\ ret' = Get(characters_cache)
            /\ call' = NoCall
       ELSE /\ Goto(c, "scan", callers[c].current_time, <<>>)
            /\ ret' = <<>>
            /\ call' = NoCall
    /\ UNCHANGED <<fs, caseFold, archives, library, now, ticks, characters_cache,
                   last_scan_time, cache_time, changes, temp, zret>>

\* lines 61-96: the scan, the duplicates removed, the list sorted
ScanTree(c) ==
    /\ At(c, "scan")
    /\ Goto(c, "store_cache", callers[c].current_time, ScanResult(fs, caseFold, None))
    /\ ret' = <<>>
    /\ call' = NoCall
    /\ UNCHANGED <<fs, caseFold, archives, library, now, ticks, characters_cache,
                   last_scan_time, cache_time, changes, temp, zret>>

\* line 99: self._characters_cache = characters
StoreCache(c) ==
    /\ At(c, "store_cache")
    /\ characters_cache' = Some(callers[c].characters)
    /\ cache_time' = Some(callers[c].current_time)
    /\ Goto(c, "store_time", callers[c].current_time, callers[c].characters)
    /\ ret' = <<>>
    /\ call' = NoCall
    /\ UNCHANGED <<fs, caseFold, archives, library, now, ticks, last_scan_time,
                   changes, temp, zret>>

\* lines 100-105: self._last_scan_time = current_time; return characters
StoreTime(c) ==
    /\ At(c, "store_time")
    /\ last_scan_time' = Some(callers[c].current_time)
    /\ Goto(c, "idle", 0, <<>>)
    /\ ret' = callers[c].characters
    /\ call' = NoCall
    /\ UNCHANGED <<fs, caseFold, archives, library, now, ticks, characters_cache,
                   cache_time, changes, temp, zret>>

\* the server starts on a tree that holds one character
ConcInit ==
    /\ fs = Tree([p \in {SlotA1} |-> BaseOnly(1)])
    /\ caseFold = FALSE
    /\ now = 0
    /\ ticks = 0
    /\ characters_cache = None
    /\ last_scan_time = None
    /\ cache_time = None
    /\ callers = NoCallers
    /\ ret = <<>>
    /\ call = NoCall
    /\ changes = 0
    /\ temp = <<>>
    /\ archives = NotKept
    /\ library = NoLibrary
    /\ zret = NoZip

ConcNext ==
    \/ \E c \in Callers : ReadClock(c)
    \/ \E c \in Callers : TestCache(c)
    \/ \E c \in Callers : ScanTree(c)
    \/ \E c \in Callers : StoreCache(c)
    \/ \E c \in Callers : StoreTime(c)
    \/ Tick
    \/ ExternalRemove

ConcSpec == ConcInit /\ [][ConcNext]_vars

\* no call stands between its two assignments of lines 99 and 100
NoStoreInProgress == \A c \in Callers : ~At(c, "store_time")

\* C20 (first half): whenever no call stands between its two assignments,
\* the recorded scan time is the time taken by the call whose list is cached.
C20_SameScan ==
    NoStoreInProgress => cache_time = last_scan_time

\* C20 (second half): the recorded scan time never moves backwards.
C20_NeverBackwards ==
    [][last_scan_time # None => Get(last_scan_time') >= Get(last_scan_time)]_vars

\* C20: for any interleaving of discover_characters calls the cached list and
\* the recorded last-scan time belong to the same scan, and the recorded scan
\* time never moves backwards.
C20_CacheReplacedAtomically ==
    /\ []C20_SameScan
    /\ C20_NeverBackwards

\* With one call at a time (Spec, where a call is one step) list and time
\* always belong to the same scan.
C20_OneCallerSameScan ==
    cache_time = last_scan_time

(***************************************************************************)
(* The temporary archive files: their names, their contents and            *)
(* cleanup_temp_file.                                                      *)
(***************************************************************************)
Exists(files, k) == k \in DOMAIN files /\ files[k]

\* the paths a caller can hand to cleanup_temp_file: none, a path a build
\* has returned, or the path of a file that is not or no longer there
TempPaths == {None} \cup {Some(k) : k \in 1..MaxArchives}

\* zip_utils.py lines 317-323.  unlink may raise (the file is held open, the
\* directory is read-only): the exception is caught and a warning printed.
cleanup_temp_file ==
    /\ Ready
    /\ \E temp_path \in TempPaths, fault \in {"none", "unlink"} :
        /\ IF temp_path # None /\ Exists(temp, Get(temp_path))
           THEN IF fault = "none"
                THEN /\ temp' = [temp EXCEPT ![Get(temp_path)] = FALSE]
                     /\ archives' = [j \in DOMAIN archives \ {Get(temp_path)} |->
                                       archives[j]]
                ELSE UNCHANGED <<temp, archives>>
           ELSE /\ fault = "none"
                /\ UNCHANGED <<temp, archives>>
        /\ call' = [NoCall EXCEPT !.op = "cleanup_temp_file",
                                  !.temp_path = temp_path, !.fault = fault]
    /\ zret' = NoZip
    /\ ret' = <<>>
    /\ UNCHANGED <<fs, caseFold, library, callers, now, ticks, characters_cache,
                   last_scan_time, cache_time, changes>>

\* the application runs on a tree that holds one complete character
TempInit ==
    /\ fs = Tree([p \in {SlotA1} |-> Complete(3)])
    /\ caseFold = FALSE
    /\ now = 0
    /\ ticks = 0
    /\ characters_cache = None
    /\ last_scan_time = None
    /\ cache_time = None
    /\ callers = NoCallers
    /\ ret = <<>>
    /\ call = NoCall
    /\ changes = 0
    /\ temp = <<>>
    /\ archives = NoArchives
    /\ library = NoLibrary
    /\ zret = NoZip

\* the builds during which the tree is left alone (a file lost during a
\* build is examined under BatchSpec)
build_single == create_character_zip /\ UNCHANGED fs
build_batch == create_batch_zip /\ UNCHANGED fs

TempNext ==
    \/ refresh_character_library
    \/ build_single
    \/ build_batch
    \/ cleanup_temp_file
    \/ Forget

TempSpec == TempInit /\ [][TempNext]_vars

ZipperBuildOps == {"create_character_zip", "create_batch_zip"}
BuildStep == call.op = "none" /\ call'.op \in ZipperBuildOps
CleanupStep == call.op = "none" /\ call'.op = "cleanup_temp_file"
CleanupOf(k) == CleanupStep /\ call'.temp_path = Some(k)

\* C21: a successful build returns the path of a file that did not exist
\* before, so the paths of the archives on the disk are pairwise distinct;
\* every archive stays on the disk with its contents until
\* cleanup_temp_file is called on its path, whatever is built meanwhile;
\* cleanup_temp_file touches no file but the given one, removes it when
\* unlink succeeds, never raises and changes nothing when the file is gone.
C21_ArchivesKeptUntilCleanup ==
    [][/\ \A k \in DOMAIN archives :
            ~CleanupOf(k) =>
                /\ Exists(temp', k)
                /\ k \in DOMAIN archives' /\ archives'[k] = archives[k]
       /\ (BuildStep /\ zret'.success) =>
            /\ ~Exists(temp, Get(zret'.path))
            /\ Exists(temp', Get(zret'.path))
            /\ Get(zret'.path) \in DOMAIN archives'
       /\ CleanupStep =>
            /\ ~zret'.raised
            /\ DOMAIN temp' = DOMAIN temp
            /\ \A k \in DOMAIN temp :
                  \/ temp'[k] = temp[k]
                  \/ call'.temp_path = Some(k) /\ temp[k] /\ ~temp'[k]
            /\ \A k \in DOMAIN temp :
                  (call'.temp_path = Some(k) /\ temp[k] /\ call'.fault = "none")
                      => ~temp'[k]
            /\ (call'.temp_path = None \/ ~Exists(temp, Get(call'.temp_path)))
                  => (temp' = temp /\ archives' = archives)]_vars

\* one archive has been cleaned up while a later one is still on the disk
C21_Witness ==
    /\ call.op = "cleanup_temp_file" /\ call.temp_path = Some(1)
    /\ Len(temp) = 2 /\ ~temp[1] /\ temp[2]
    /\ 2 \in DOMAIN archives

(***************************************************************************)
(* DetSpec: archives built one after the other from a tree that does not   *)
(* change, before and after the clock has advanced.                        *)
(***************************************************************************)
\* time passes between two builds
Later ==
    /\ Tick
    /\ now = 0
    /\ now' = FreshnessWindow

DetNext ==
    \/ refresh_character_library
    \/ build_single
    \/ build_batch
    \/ Later
    \/ Forget

DetSpec == TempInit /\ [][DetNext]_vars

Built == call.op \in ZipperBuildOps /\ zret.success

SameInputs(a, b) ==
    /\ a.op = b.op
    /\ a.char_info = b.char_info
    /\ a.characters = b.characters
    /\ a.include_metadata = b.include_metadata

C24_AnnouncedNameIsFileName ==
    Built => TempName(Get(zret.path)) = zret.filename

(***************************************************************************)
(* LookupSpec: get_character_by_id while the tree changes and time passes. *)
(***************************************************************************)
LookupNext ==
    \/ get_character_by_id
    \/ Tick
    \/ create_session_folder
    \/ ExternalRemove
    \/ Forget

LookupSpec == Init /\ [][LookupNext]_vars

LookupCall == call.op = "get_character_by_id"

\* the list discover_characters() returns to the lookup: the cache the call
\* has found when it is recent, the scan of the tree otherwise
ListReturned ==
    IF UseCache(FALSE, call.cacheBefore, call.scanBefore, now)
    THEN Get(call.cacheBefore)
    ELSE ScanResult(fs, caseFold, call.unreadable)

Matches(list, id) ==
    {i \in DOMAIN list : list[i].session_id = id[1] /\ list[i].character_id = id[2]}

Least(S) == CHOOSE i \in S : \A j \in S : i <= j

\* C23: get_character_by_id returns a record exactly when the list that
\* discover_characters() without force_refresh returns at that moment holds
\* a record of the pair, and then the first such record of that list;
\* otherwise it returns None.
C23_LookupIsFirstMatch ==
    LookupCall =>
        LET hits == Matches(ListReturned, call.selection[1])
        IN  IF hits = {} THEN ret = None
            ELSE ret = Some(ListReturned[Least(hits)])

\* the directory has been removed, the recent cache still holds its record
\* and the lookup returns it
C23_Witness ==
    /\ LookupCall
    /\ call.selection[1] \notin DOMAIN fs.dirs
    /\ ret # None
    /\ call.cacheBefore # None

(***************************************************************************)
(* Properties of the records of a scan, checked under ZipSpec, where the   *)
(* directory is rewritten between two discoveries.                         *)
(***************************************************************************)
RealisticIn(e) ==
    IF e.hasConsistency THEN {f \in e.consistency : IsRealisticName(f)} ELSE {}
StyleDirsOf(e) == IF e.hasStyles THEN DOMAIN e.styles ELSE {}
StyledIn(e, st) == {f \in e.styles[st] : IsImageName(f)}

RECURSIVE SumOver(_, _)
SumOver(counts, keys) ==
    IF keys = {} THEN 0
    ELSE LET k == CHOOSE x \in keys : TRUE
         IN  counts[k] + SumOver(counts, keys \ {k})

\* C25: every record of a scan has total_images = (1 if its base image
\* exists, else 0) + realistic_count + the sum of its styled counts, no
\* count is negative, and base image, realistic_count and styled counts are
\* those of the directory as the scan finds it.
C25_TotalFromFilesystem ==
    LastCallScanned =>
        \A i \in DOMAIN ret :
            LET r == ret[i]
                e == fs.dirs[r.path]
            IN  /\ r.total_images
                     = (IF r.base_image_path # None /\ Get(r.base_image_path) \in e.top
                        THEN 1 ELSE 0)
                       + r.realistic_count
                       + SumOver(r.styled_counts, DOMAIN r.styled_counts)
                /\ r.realistic_count >= 0
                /\ \A st \in DOMAIN r.styled_counts : r.styled_counts[st] >= 0
                /\ (r.base_image_path # None) = HasBaseImage(e)
                /\ r.realistic_count = Cardinality(RealisticIn(e))
                /\ \A st \in DOMAIN r.styled_counts :
                      st \in StyleDirsOf(e)
                      /\ r.styled_counts[st] = Cardinality(StyledIn(e, st))

\* the directory has been rewritten since the cached record was built, and
\* the new scan counts styled images
C25_Witness ==
    /\ LastCallScanned
    /\ call.cacheBefore # None
    /\ \E i \in DOMAIN ret, j \in DOMAIN Get(call.cacheBefore) :
          /\ ret[i].path = Get(call.cacheBefore)[j].path
          /\ ret[i].total_images # Get(call.cacheBefore)[j].total_images
          /\ SumOver(ret[i].styled_counts, DOMAIN ret[i].styled_counts) > 0
          /\ ret[i].realistic_count > 0

\* C27: styled_counts of a discovered record has exactly one key per
\* directory directly under Styles, the name of the directory, with the
\* number of images directly inside it as value (0 for an empty one); a
\* plain file under Styles gives no key.
C27_OneKeyPerStyleFolder ==
    LastCallScanned =>
        \A i \in DOMAIN ret :
            LET r == ret[i]
                e == fs.dirs[r.path]
            IN  /\ DOMAIN r.styled_counts = StyleDirsOf(e)
                /\ \A st \in StyleDirsOf(e) :
                      r.styled_counts[st] = Cardinality(StyledIn(e, st))
                /\ \A f \in e.styleFiles : f \notin DOMAIN r.styled_counts

\* a style folder without image and a plain file lie under Styles
C27_Witness ==
    /\ LastCallScanned
    /\ \E i \in DOMAIN ret :
          /\ <<"noir">> \in DOMAIN ret[i].styled_counts
          /\ ret[i].styled_counts[<<"noir">>] = 0
          /\ ret[i].styled_counts[<<"ghibli">>] = 1
          /\ NotesTxt \in fs.dirs[ret[i].path].styleFiles

(***************************************************************************)
(* MetaSpec: discovery over two character directories, one of each         *)
(* layout, whose metadata file is missing, malformed or well-formed.       *)
(***************************************************************************)
MetaTops ==
    { <<{BaseCharacterPng}, "">>,
      <<{BaseCharacterPng, CharacterMetaJson}, "{prompt:">>,
      <<{BaseCharacterPng, CharacterMetaJson}, "{prompt,parameters,success}">>,
      <<{BaseCharacterPng, CharacterMetaJson}, "{parameters}">>,
      <<{BaseCharacterPng, CharacterMetaJson}, "{}">>,
      <<{BaseCharacterPng, CharacterMetaJson}, "null">>,
      <<{BaseImagePng, ImageMetaJson}, "[1]">>,
      <<{BaseImagePng, ImageMetaJson}, "{prompt,parameters,success}">>,
      <<{CharacterMetaJson}, "{prompt:">>,
      <<{CharacterMetaJson}, "{prompt,parameters,success}">> }

MetaEntries ==
    {Entry("dir", t, top[1], top[2], TRUE, c, FALSE, NoStyles, {}) :
        top \in MetaTops, c \in {{}, {Realistic1}}, t \in {1}}

MetaFsUniverse ==
    {Tree(d) : d \in [{SlotA1, SlotOldHero} -> MetaEntries]}

MetaInit ==
    /\ fs \in MetaFsUniverse
    /\ caseFold = FALSE
    /\ now = 0
    /\ ticks = 0
    /\ characters_cache = None
    /\ last_scan_time = None
    /\ cache_time = None
    /\ callers = NoCallers
    /\ ret = <<>>
    /\ call = NoCall
    /\ changes = 0
    /\ temp = <<>>
    /\ archives = NotKept
    /\ library = NoLibrary
    /\ zret = NoZip

MetaNext ==
    \/ Discover
    \/ refresh_characters

MetaSpec == MetaInit /\ [][MetaNext]_vars

\* the directories a pass of the scan hands to _analyze_character_directory
AnalysedPaths ==
    {p \in DOMAIN fs.dirs :
        \/ \E i \in DOMAIN StandardSessions(fs, caseFold) :
              /\ StandardSessions(fs, caseFold)[i] = p[1]
              /\ \E j \in DOMAIN StandardChars(fs, caseFold, None, p[1]) :
                    StandardChars(fs, caseFold, None, p[1])[j] = p[2]
        \/ \E i \in DOMAIN LegacySessions(fs) :
              /\ LegacySessions(fs)[i] = p[1]
              /\ \E j \in DOMAIN LegacyChars(fs, caseFold, p[1]) :
                    LegacyChars(fs, caseFold, p[1])[j] = p[2]}

HasMetadataFile(e) == CharacterMetaJson \in e.top \/ ImageMetaJson \in e.top
BadMetadata(e) == ~HasMetadataFile(e) \/ JsonLoad(e.meta) = None

\* the tree in which the metadata file of p is there and well-formed
WellFormedAt(p) ==
    [fs EXCEPT !.dirs[p] = [@ EXCEPT !.top = @ \cup {CharacterMetaJson},
                                     !.meta = "{prompt,parameters,success}"]]

Others(chars, p) == SelectSeq(chars, LAMBDA c : c.path # p)
RecordsOf(chars, p) == {chars[i] : i \in {j \in DOMAIN chars : chars[j].path = p}}

\* C26: for a directory the scan analyses whose metadata file is missing or
\* does not parse, the character is returned when it has an image, with
\* base_metadata and prompt absent, and the other characters are returned as
\* they are when the file is well-formed; when the file parses, prompt is
\* the prompt field of the document (absent when it has none).
C26_BadMetadataTolerated ==
    (LastCallScanned /\ call.unreadable = None) =>
        \A p \in AnalysedPaths :
            LET e == fs.dirs[p]
            IN  IF BadMetadata(e)
                THEN /\ HasImages(e) => RecordsOf(ret, p) # {}
                     /\ \A r \in RecordsOf(ret, p) :
                           r.base_metadata = None /\ r.prompt = None
                     /\ Others(ret, p)
                          = Others(ScanResult(WellFormedAt(p), caseFold, None), p)
                ELSE \A r \in RecordsOf(ret, p) :
                           r.prompt = Get(JsonLoad(e.meta)).prompt

\* one character with a malformed metadata file is returned beside another
\* whose prompt has been read
C26_Witness ==
    /\ LastCallScanned /\ call.unreadable = None
    /\ Len(ret) = 2
    /\ \E i, j \in DOMAIN ret :
          /\ fs.dirs[ret[i].path].meta = "{prompt:"
          /\ ret[i].base_metadata = None
          /\ ret[j].prompt = Some("a portrait")

(***************************************************************************)
(* delete_character (character_manager.py lines 358-374).  Its result      *)
(* (success, message) is kept in zret.                                     *)
(***************************************************************************)
RemoveDir(fsys, p) ==
    [fsys EXCEPT !.dirs = [q \in DOMAIN fsys.dirs \ {p} |-> fsys.dirs[q]]]

\* shutil.rmtree removes the entries of the directory one after the other
\* and raises at the first it cannot remove: the directory is left as it
\* was, or without the files removed before the failure.
PartlyRemoved(e) ==
    {e, [e EXCEPT !.top = {}, !.meta = ""]}

\* Lines 363-374: the directory removed and the cache cleared; a directory
\* that is not there refused; an exception of rmtree reported.
delete_character ==
    /\ Ready
    /\ \E i \in DOMAIN Discovered, fault \in {"none", "rmtree"} :
        LET char_info == Discovered[i]
            this == [NoCall EXCEPT !.op = "delete_character",
                                   !.char_info = Some(char_info),
                                   !.fault = fault]
        IN  /\ call' = this
            /\ IF char_info.path \notin DOMAIN fs.dirs
               THEN /\ fault = "none"
                    /\ zret' = [NoZip EXCEPT !.message = "Character directory not found"]
                    /\ UNCHANGED <<fs, characters_cache, cache_time>>
               ELSE IF fault = "none"
               THEN /\ fs' = RemoveDir(fs, char_info.path)
                    /\ characters_cache' = None
                    /\ cache_time' = None
                    /\ zret' = [NoZip EXCEPT !.success = TRUE,
                                             !.message = "deleted successfully"]
               ELSE /\ \E e \in PartlyRemoved(fs.dirs[char_info.path]) :
                          fs' = [fs EXCEPT !.dirs[char_info.path] = e]
                    /\ zret' = [NoZip EXCEPT !.message = "Error deleting character"]
                    /\ UNCHANGED <<characters_cache, cache_time>>
    /\ ret' = <<>>
    /\ UNCHANGED <<caseFold, callers, archives, library, now, ticks, last_scan_time,
                   changes, temp>>

DeleteInit ==
    /\ Init
    /\ caseFold = FALSE

DeleteNext ==
    \/ refresh_character_library
    \/ get_character_by_id
    \/ delete_character
    \/ create_session_folder
    \/ Tick
    \/ Forget

DeleteSpec == DeleteInit /\ [][DeleteNext]_vars

DeleteStep == call.op = "none" /\ call'.op = "delete_character"
DiscoveryStep == call.op = "none" /\ call'.op \in {"discover", "get_character_by_id"}

\* no list handed out or cached names a directory that is not in the tree
\* (in DeleteSpec directories go only through delete_character)
NoDeletedIdentity ==
    /\ \A i \in DOMAIN Discovered : Discovered[i].path \in DOMAIN fs.dirs
    /\ call.op \in {"discover", "get_character_by_id"}
          => \A i \in DOMAIN ret : ret[i].path \in DOMAIN fs.dirs

\* what C28 states of a successful delete_character
DeleteSucceeds ==
    (DeleteStep /\ zret'.success) =>
        /\ fs' = RemoveDir(fs, Get(call'.char_info).path)
        /\ characters_cache' = None

\* a discovery that finds the cache cleared scans, whatever the time
ClearedCacheRescans ==
    (DiscoveryStep /\ characters_cache = None) =>
        /\ characters_cache' = Some(ScanResult(fs, caseFold, call'.unreadable))
        /\ last_scan_time' = Some(now)

\* C28: a successful delete_character removes the directory and clears the
\* cache, so that the next discovery re-scans inside the 30-second window
\* and no later result names the deleted identity until its directory is
\* created again; a failing delete_character leaves cache and tree as they
\* were.
C28_DeleteInvalidatesCache ==
    /\ []NoDeletedIdentity
    /\ [][/\ DeleteSucceeds
          /\ ClearedCacheRescans
          /\ (DeleteStep /\ ~zret'.success) =>
                (fs' = fs /\ characters_cache' = characters_cache)]_vars

\* the part of C28 about success, and the cache on failure: the cache is
\* left as it was when delete_character fails
C28_SuccessInvalidates ==
    /\ []NoDeletedIdentity
    /\ [][/\ DeleteSucceeds
          /\ ClearedCacheRescans
          /\ (DeleteStep /\ ~zret'.success) =>
                characters_cache' = characters_cache]_vars

(***************************************************************************)
(* PrefixSpec: a batch over two characters whose identifiers, typed by the *)
(* user in create_character, both follow the Standard convention.          *)
(***************************************************************************)
SlotLongChar == << <<"Session", "_", "A">>, <<"Char", "_", "1", "_", "Char", "_", "1">> >>
SlotLongSession == << <<"Session", "_", "A", "_", "Char", "_", "1">>, <<"Char", "_", "1">> >>

PrefixInit ==
    /\ fs = Tree([p \in {SlotLongChar, SlotLongSession} |->
                    IF p = SlotLongChar THEN BaseOnly(1) ELSE BaseOnly(2)])
    /\ caseFold = FALSE
    /\ now = 0
    /\ ticks = 0
    /\ characters_cache = None
    /\ last_scan_time = None
    /\ cache_time = None
    /\ callers = NoCallers
    /\ ret = <<>>
    /\ call = NoCall
    /\ changes = 0
    /\ temp = <<>>
    /\ archives = NotKept
    /\ library = NoLibrary
    /\ zret = NoZip

PrefixNext ==
    \/ refresh_character_library
    \/ create_batch_zip
    \/ Forget

PrefixSpec == PrefixInit /\ [][PrefixNext]_vars

DistinctIdentities(characters) ==
    \A i, j \in DOMAIN characters :
        CharKey(characters[i]) = CharKey(characters[j]) => i = j

\* C29: a batch archive built from records with pairwise distinct
\* (session_id, character_id) has no two entries with the same path, the
\* folders of two different records being different.
C29_NoSharedEntryPath ==
    (BatchBuilt /\ DistinctIdentities(call.characters)) =>
        /\ \A i, j \in DOMAIN call.characters :
              CharFolder(call.characters[i]) = CharFolder(call.characters[j]) => i = j
        /\ \A i, j \in DOMAIN zret.entries :
              zret.entries[i] = zret.entries[j] => i = j

(***************************************************************************)
(* The Character Library tab of app.py: the gallery of preview images, the *)
(* grid state behind it, the selected character and its download.  A path  *)
(* of an image is the sequence of its components, session directory first. *)
(***************************************************************************)
\* sorted(): the file names in the order of their strings
SortedNames ==
    << BaseCharacterPng, BaseOtherPng, BaseImagePng, OtherPng, Realistic1,
       Realistic1Meta, Realistic2, CharacterMetaJson, ImageMetaJson, Ghibli1,
       Ghibli1Meta, NotesTxt >>

\* s[:n]
FirstN(s, n) == SubSeq(s, 1, IF Len(s) < n THEN Len(s) ELSE n)

\* the stages of get_character_preview_images at which a listing may raise
PreviewStages == {"variations", "styles"}

\* character_manager.py lines 288-318 on the tree fsys: the base image when
\* it is still there, up to three variations, one image of each of the
\* first two styles of styled_counts, the first max_previews of them.  A
\* listing that raises (raised) ends the collection with what it holds.
get_character_preview_images(fsys, ci, char_info, max_previews, raised) ==
    LET there == char_info.path \in DOMAIN fsys.dirs
                 /\ fsys.dirs[char_info.path].kind = "dir"
        e == fsys.dirs[char_info.path]
        Preview(dir, f, description) ==
            [path |-> char_info.path \o dir \o <<f>>, description |-> description]
        base == IF char_info.base_image_path # None /\ there
                   /\ Get(char_info.base_image_path) \in e.top
                THEN <<Preview(<<>>, Get(char_info.base_image_path), "Base Character")>>
                ELSE <<>>
        realistic_images ==
            IF there /\ e.hasConsistency
            THEN FirstN(Listing(SortedNames,
                                {f \in e.consistency :
                                    GlobMatch(f, <<"Realistic", "_">>, <<".png">>, ci)}), 3)
            ELSE <<>>
        variations == [i \in DOMAIN realistic_images |->
                          Preview(<<"ConsistencyTests">>, realistic_images[i], "Variation")]
        style_names ==
            IF there /\ e.hasStyles
            THEN FirstN(Listing(StyleNames, DOMAIN char_info.styled_counts), 2)
            ELSE <<>>
        StyleImages(style_name) ==
            IF style_name \in DOMAIN e.styles
            THEN FirstN(Listing(SortedNames,
                                {f \in e.styles[style_name] :
                                    GlobMatch(f, <<>>, <<".png">>, ci)}), 1)
            ELSE <<>>
        styled == Concat([k \in DOMAIN style_names |->
                            [i \in DOMAIN StyleImages(style_names[k]) |->
                                Preview(<<"Styles", style_names[k]>>,
                                        StyleImages(style_names[k])[i], "Style")]])
    IN  IF raised = Some("variations") /\ there /\ e.hasConsistency
        THEN base
        ELSE IF raised = Some("styles") /\ style_names # <<>>
        THEN base \o variations
        ELSE FirstN(base \o variations \o styled, max_previews)

\* strftime("%Y-%m-%d %H:%M"): the date to the minute
ToMinute(t) == t \div 60

\* app.py lines 175-186: the card of one character
CardInfo(char, preview_images) ==
    [session_id |-> char.session_id,
     character_id |-> char.character_id,
     creation_date |-> ToMinute(char.creation_date),
     total_images |-> char.total_images,
     realistic_count |-> char.realistic_count,
     styled_counts |-> char.styled_counts,
     preview_images |-> preview_images,
     prompt |-> IF char.prompt = None \/ Get(char.prompt) = ""
                THEN "No prompt available" ELSE Get(char.prompt)]

\* app.py lines 170-187: one card for each character found, in their order;
\* failing names the character whose previews raise, and the stage
CharacterGrid(characters, failing) ==
    [k \in DOMAIN characters |->
        CardInfo(characters[k],
                 get_character_preview_images(
                     fs, caseFold, characters[k], 3,
                     IF failing # None /\ Get(failing).at = k
                     THEN Some(Get(failing).stage) ELSE None))]

SumImages(characters) ==
    LET RECURSIVE Sum(_)
        Sum(k) == IF k = 0 THEN 0 ELSE characters[k].total_images + Sum(k - 1)
    IN  Sum(Len(characters))

\* app.py lines 167-168 and 189-192: the status message
StatusMsg(characters) ==
    IF characters = <<>>
    THEN [text |-> "No characters found", total_chars |-> 0, total_images |-> 0]
    ELSE [text |-> "Found", total_chars |-> Len(characters),
          total_images |-> SumImages(characters)]

\* app.py lines 673-677: the first preview image of every card that has one
GalleryItems(character_grid) ==
    Concat([k \in DOMAIN character_grid |->
              IF character_grid[k].preview_images # <<>>
              THEN <<character_grid[k].preview_images[1].path>>
              ELSE <<>>])

PreviewFailures(characters) ==
    {None} \cup {Some([at |-> k, stage |-> st]) :
                    k \in DOMAIN characters, st \in PreviewStages}

\* app.py lines 667-679, with refresh_character_library (lines 163-193)
handle_library_refresh ==
    /\ Ready
    /\ \E failing \in PreviewFailures(Lookup(None)) :
        LET characters == Lookup(None)
            character_grid == CharacterGrid(characters, failing)
        IN  /\ LookupUpdate(None)
            /\ library' = [library EXCEPT
                              !.character_gallery = GalleryItems(character_grid),
                              !.library_status = StatusMsg(characters),
                              !.character_grid_data = character_grid]
            /\ ret' = characters
            /\ call' = [NoCall EXCEPT
                           !.op = "handle_library_refresh",
                           !.cacheBefore = characters_cache,
                           !.scanBefore = last_scan_time,
                           !.scanned = ~UseCache(FALSE, characters_cache,
                                                 last_scan_time, now),
                           !.fault = IF failing = None THEN "none"
                                     ELSE Get(failing).stage]
    /\ zret' = NoZip
    /\ UNCHANGED <<fs, caseFold, callers, archives, now, ticks, changes, temp>>

\* app.py lines 251-294: the text shown for the selected card, from the
\* record get_character_by_id finds
CharacterDetails(found) ==
    IF found = None
    THEN [text |-> "Character not found", char |-> None]
    ELSE [text |-> "details",
          char |-> Some([character_id |-> Get(found).character_id,
                         session_id |-> Get(found).session_id,
                         creation_date |-> Get(found).creation_date,
                         total_images |-> Get(found).total_images,
                         realistic_count |-> Get(found).realistic_count,
                         styled_counts |-> Get(found).styled_counts,
                         prompt |-> Get(found).prompt])]

\* app.py lines 681-688.  evt.index is the position of the gallery item the
\* user clicked, counted here from one: the card at that position of the
\* grid state is selected, and its details looked up.
handle_character_selection ==
    /\ Ready
    /\ \E index \in DOMAIN library.character_gallery, u \in ScanUnreadables :
        LET current_grid == library.character_grid_data
        IN  IF index \in DOMAIN current_grid
            THEN LET selected_char == current_grid[index]
                     found == GetCharacterById(Lookup(u), selected_char.session_id,
                                               selected_char.character_id)
                 IN  /\ LookupUpdate(u)
                     /\ library' = [library EXCEPT
                                       !.selected_character_data = Some(selected_char),
                                       !.character_details = CharacterDetails(found)]
                     /\ call' = [NoCall EXCEPT
                                    !.op = "handle_character_selection",
                                    !.selection = <<index>>,
                                    !.cacheBefore = characters_cache,
                                    !.scanBefore = last_scan_time,
                                    !.unreadable = u]
            ELSE /\ u = None
                 /\ library' = [library EXCEPT
                                   !.selected_character_data = None,
                                   !.character_details =
                                       [text |-> "No character selected", char |-> None]]
                 /\ call' = [NoCall EXCEPT !.op = "handle_character_selection",
                                           !.selection = <<index>>]
                 /\ UNCHANGED <<characters_cache, last_scan_time, cache_time>>
    /\ ret' = <<>>
    /\ zret' = NoZip
    /\ UNCHANGED <<fs, caseFold, callers, archives, now, ticks, changes, temp>>

\* app.py lines 690-695, with download_character_zip (lines 195-219) on the
\* selected card
handle_single_download ==
    /\ Ready
    /\ \E include_metadata \in BOOLEAN, fault \in Faults, u \in ScanUnreadables :
        LET character_data == library.selected_character_data
            this == [NoCall EXCEPT !.op = "handle_single_download",
                                   !.include_metadata = include_metadata]
        IN  IF character_data = None
            THEN /\ fault = "none" /\ u = None
                 /\ Refuse(this, "Please select a character first")
                 /\ UNCHANGED <<characters_cache, last_scan_time, cache_time>>
            ELSE \E char \in {GetCharacterById(Lookup(u), Get(character_data).session_id,
                                               Get(character_data).character_id)} :
                     /\ LookupUpdate(u)
                     /\ IF char = None
                        THEN fault = "none" /\ Refuse(this, "Character not found")
                        ELSE \E entries \in {CharacterEntries(fs, caseFold, Get(char),
                                                               include_metadata)} :
                                 Build([this EXCEPT !.char_info = char],
                                       Items(Get(char), entries), entries,
                                       "Error creating ZIP", "ZIP created successfully",
                                       fault)

(***************************************************************************)
(* GallerySpec: a library of two characters, refreshed, browsed and        *)
(* downloaded while directories are removed from outside.                  *)
(***************************************************************************)
\* a character whose only image lies in the third of its style folders
ThirdStyleOnly(t) ==
    Entry("dir", t, {}, "", FALSE, {}, TRUE,
          [st \in {<<"ghibli">>, <<"rick", "_", "morty">>, <<"noir">>} |->
              IF st = <<"noir">> THEN {OtherPng} ELSE {}], {})

GalleryFsUniverse ==
    { Tree([p \in {SlotA1, SlotOldHero} |->
              IF p = SlotA1 THEN Complete(3) ELSE BaseOnly(1)]),
      Tree([p \in {SlotA1, SlotOldHero} |->
              IF p = SlotA1 THEN ThirdStyleOnly(3) ELSE BaseOnly(1)]) }

GalleryInit ==
    /\ fs \in GalleryFsUniverse
    /\ caseFold = FALSE
    /\ now = 0
    /\ ticks = 0
    /\ characters_cache = None
    /\ last_scan_time = None
    /\ cache_time = None
    /\ callers = NoCallers
    /\ ret = <<>>
    /\ call = NoCall
    /\ changes = 0
    /\ temp = <<>>
    /\ archives = NotKept
    /\ library = NoLibrary
    /\ zret = NoZip

GalleryNext ==
    \/ handle_library_refresh
    \/ handle_character_selection
    \/ handle_single_download
    \/ ExternalRemove
    \/ Forget

GallerySpec == GalleryInit /\ [][GalleryNext]_vars

\* the character whose directory the i-th gallery image lies in
ShownAt(i) == SubSeq(library.character_gallery[i], 1, 2)

\* the character of the i-th card of the grid state
CardAt(i) ==
    <<library.character_grid_data[i].session_id,
      library.character_grid_data[i].character_id>>

\* C30: the i-th item of the character gallery and the i-th card of the
\* grid state that resolves a selection denote the same character.
C30_GalleryMatchesGrid ==
    \A i \in DOMAIN library.character_gallery :
        /\ i \in DOMAIN library.character_grid_data
        /\ ShownAt(i) = CardAt(i)

\* the positions agree whenever every card of the grid has a preview image
C30_AlignedWhenAllPreviewed ==
    (\A k \in DOMAIN library.character_grid_data :
        library.character_grid_data[k].preview_images # <<>>)
        => C30_GalleryMatchesGrid

====
